---- MODULE Spec2Model ----
(***************************************************************************)
(* A model of the MQTT client Session of hlindberg/mezquit                  *)
(* (internal/mqtt): the wire codec, the in-flight tracker, and the Session  *)
(* with its handshake worker, reader, dispatcher and writer goroutines.     *)
(***************************************************************************)
EXTENDS Integers, Sequences, FiniteSets, TLC

(***************************************************************************)
(* Bounds of the model.                                                     *)
(***************************************************************************)
\* Calls an unscripted caller makes over the life of the Session (Connect, Publish,
\* Disconnect, DisconnectWithoutMessage, ReEstablish, closing the transport),
\* failed ones included.
MaxCalls == 4
\* Calls the caller makes when the connect timer may fire at any moment.
MaxHandshakeCalls == 3
\* Transports the caller dials over the life of the Session.
MaxConns == 3
\* Rows of the file cmd/pub publishes (publishFromFile: one Publish per row).
MaxRows == 2
\* Connections a caller makes in turn on one Session (connect, publish, disconnect).
MaxRounds == 2
\* The values 0..MaxVarInt are encoded as variable-length integers, and the
\* values at the ends of the 2, 3 and 4 byte ranges.
MaxVarInt == 130

\* A tracker used on its own registers at most MaxRegistered messages, under the
\* identifiers 1..MaxRegistered.
MaxRegistered == 3

\* The packet identifier space 1..MaxID (the source has 1..0xFFFF).
MaxID == 8

(***************************************************************************)
(* Program constants.                                                       *)
(***************************************************************************)
INITIAL == 0
CONNECTED == 1
DISCONNECTING == 2
DISCONNECTED == 3

ConnectType == 1
ConnAckType == 2
PublishType == 3
PublishAckType == 4
PublishReceivedType == 5
PublishReleaseType == 6
PublishCompleteType == 7
DisconnectType == 14
PublishReleaseReserved == 2
ConnectionAccepted == 0
ConnectionRefusedNotAuthorized == 5
CleanSessionFlag == 2
WillFlag == 4
PasswordFlag == 64
UserNameFlag == 128
QoSOne == 2
QoSTwo == 4
DupBit == 8
RetainBit == 1

(***************************************************************************)
(* Byte arithmetic.                                                         *)
(***************************************************************************)
\* byte(x): a Go byte keeps the low 8 bits.
Byte(x) == x % 256

\* x << n on a byte.
ShiftLeftByte(x, n) == Byte(x * (2 ^ n))

\* x >> n.
ShiftRight(x, n) == x \div (2 ^ n)

\* x | bit, for a single-bit mask.
OrBit(x, bit) == IF (x \div bit) % 2 = 1 THEN x ELSE x + bit

\* x & bit # 0, for a single-bit mask.
HasBit(x, bit) == (x \div bit) % 2 = 1

(***************************************************************************)
(* Wire codec (encoding.go).                                                *)
(***************************************************************************)
RECURSIVE EncodeVariableInt(_)
EncodeVariableInt(value) ==
    IF value \div 128 > 0
    THEN <<OrBit(value % 128, 128)>> \o EncodeVariableInt(value \div 128)
    ELSE <<value % 128>>

\* Encode16BitIntTo: big endian, byte(value >> 8) then byte(value & 0xFF).
Encode16BitInt(value) == <<Byte(ShiftRight(value, 8)), value % 256>>

\* EncodeStringTo: 16 bit length, then the content.
EncodeString(value) == <<Byte(ShiftRight(Len(value), 8)), Len(value) % 256>> \o value

(***************************************************************************)
(* Messages (GenericMessage, PublishRequest, ConnectRequest).               *)
(***************************************************************************)
GenericMessage(h, b) == [fixedHeader |-> h, body |-> b]

\* GenericMessage.WriteTo: header byte, variable length of the body, body.
WriteTo(m) == <<m.fixedHeader>> \o EncodeVariableInt(Len(m.body)) \o m.body

\* GenericMessage.WriteDupTo as the comment documents it: DUP set on a PUBLISH.
WriteDupToDocumented(m) ==
    IF ShiftRight(m.fixedHeader, 4) = PublishType
    THEN WriteTo(GenericMessage(OrBit(m.fixedHeader, DupBit), m.body))
    ELSE WriteTo(m)

\* GenericMessage.WriteDupTo: the test is m.fixedHeader<<4 == PublishType, on a byte.
WriteDupTo(m) ==
    IF ShiftLeftByte(m.fixedHeader, 4) = PublishType
    THEN WriteTo(GenericMessage(OrBit(m.fixedHeader, DupBit), m.body))
    ELSE WriteTo(m)

\* The topic "t" and the message "x" every Publish of the model uses.
Topic == <<116>>
Message == <<120>>

\* PublishRequest.fixedHeaderBits
fixedHeaderBits(qos, retain, dup) ==
    LET q == IF qos = 1 THEN OrBit(PublishType * 16, QoSOne)
             ELSE IF qos = 2 THEN OrBit(PublishType * 16, QoSTwo)
             ELSE PublishType * 16
        r == IF retain THEN OrBit(q, RetainBit) ELSE q
    IN  IF dup THEN OrBit(r, DupBit) ELSE r

\* PublishRequest.makeMessage
PublishMessage(qos, packetID) ==
    GenericMessage(fixedHeaderBits(qos, FALSE, FALSE),
                   EncodeString(Topic)
                     \o (IF qos > 0 THEN Encode16BitInt(packetID) ELSE <<>>)
                     \o Message)

\* The PUBREL processPublishReceived builds.
ReleaseMessage(packetID) ==
    GenericMessage(PublishReleaseType * 16 + PublishReleaseReserved, Encode16BitInt(packetID))

\* A DISCONNECT message with a reserved flag bit set.
NewDisconnectMessageFlagged == GenericMessage(DisconnectType * 16 + 1, <<>>)

\* NewDisconnectMessage
NewDisconnectMessage == GenericMessage(DisconnectType * 16, <<>>)

\* The Session's client name "M".
ClientName == <<77>>

\* ConnectRequest.connectBits for the options the model varies.
connectBits(clean) == IF clean THEN CleanSessionFlag ELSE 0

\* The CONNECT message of a request with default level 4 and keep alive 10.
ConnectMessage(clean) ==
    GenericMessage(ConnectType * 16,
                   <<0, 4, 77, 81, 84, 84, 4, connectBits(clean), 0, 10>>
                     \o EncodeString(ClientName))

(***************************************************************************)
(* In-flight tracker (inFlight, waitingPacketList).  A tracker is a record; *)
(* the waiting packets are heap nodes 1..Len(nodes), 0 is the nil pointer.  *)
(***************************************************************************)
\* The Session's inFlight field before the first Connect: nil.
NilInFlight ==
    [nil |-> TRUE, bits |-> {}, nextValue |-> 0, front |-> 0, back |-> 0,
     nodes |-> <<>>, waitingIdx |-> [i \in 0..MaxID |-> 0]]

\* newInFlight
newInFlight == [NilInFlight EXCEPT !.nil = FALSE]

getBit(f, n) == n \in f.bits

setBit(f, n) == [f EXCEPT !.bits = @ \cup {n}]

unsetBit(f, n) == [f EXCEPT !.bits = @ \ {n}]

clearAllBits(f) == [f EXCEPT !.bits = {}]

\* An increment that wraps to 0.
cappedIncrementToZero(x) == IF x + 1 > MaxID THEN 0 ELSE x + 1

\* cappedIncrement: x+1, and past the last identifier back to 1.
cappedIncrement(x) == IF x + 1 > MaxID THEN 1 ELSE x + 1

\* The loop of nextPacketID: advance while the bit is set and the cursor is not
\* reached again.  After MaxID steps the values repeat: -1 says the loop never ends.
RECURSIVE scanPacketID(_, _, _, _)
scanPacketID(f, result, dragonsTail, fuel) ==
    IF ~(getBit(f, result) /\ result # dragonsTail) THEN result
    ELSE IF fuel = 0 THEN -1
    ELSE scanPacketID(f, cappedIncrement(result), dragonsTail, fuel - 1)

\* nextPacketID: outcome "ok" with the new tracker and the identifier, "panic"
\* (No free packet IDs) or "hang" (the loop does not terminate).
nextPacketID(f) ==
    LET dragonsTail == f.nextValue
        result == scanPacketID(f, cappedIncrement(f.nextValue), dragonsTail, MaxID)
    IN  IF result = -1 THEN [outcome |-> "hang", f |-> f, id |-> 0]
        ELSE IF result = dragonsTail THEN [outcome |-> "panic", f |-> f, id |-> 0]
        ELSE [outcome |-> "ok", f |-> setBit([f EXCEPT !.nextValue = result], result),
              id |-> result]

\* A list that takes a new waitingPacket at its front.
PushFront(f, packetID, msg) ==
    LET it == Len(f.nodes) + 1
    IN  IF f.front = 0
        THEN [f EXCEPT !.nodes = Append(@, [packetID |-> packetID, msg |-> msg,
                                             next |-> 0, prev |-> 0]),
                       !.front = it, !.back = it]
        ELSE [f EXCEPT !.nodes = Append([@ EXCEPT ![f.front].prev = it],
                                        [packetID |-> packetID, msg |-> msg,
                                         next |-> f.front, prev |-> 0]),
                       !.front = it]

\* waitingPacketList.PushBack of a new waitingPacket{msg, packetID}; the new node
\* is Len(nodes)+1.
PushBack(f, packetID, msg) ==
    LET it == Len(f.nodes) + 1
    IN  IF f.front = 0
        THEN [f EXCEPT !.nodes = Append(@, [packetID |-> packetID, msg |-> msg,
                                             next |-> 0, prev |-> 0]),
                       !.front = it, !.back = it]
        ELSE [f EXCEPT !.nodes = Append([@ EXCEPT ![f.back].next = it],
                                        [packetID |-> packetID, msg |-> msg,
                                         next |-> 0, prev |-> f.back]),
                       !.back = it]

\* A Remove that closes the gap and leaves the links of the removed node.
RemoveLeavesLinks(f, it) ==
    LET tmpNext == f.nodes[it].next
        tmpPrev == f.nodes[it].prev
        f1 == IF tmpNext = 0 THEN [f EXCEPT !.back = tmpPrev]
              ELSE [f EXCEPT !.nodes[tmpNext].prev = tmpPrev]
    IN  IF tmpPrev = 0 THEN [f1 EXCEPT !.front = tmpNext]
        ELSE [f1 EXCEPT !.nodes[tmpPrev].next = tmpNext]

\* waitingPacketList.Remove(it), it a non-nil node.
Remove(f, it) ==
    LET tmpNext == f.nodes[it].next
        tmpPrev == f.nodes[it].prev
        f1 == IF tmpNext = 0 THEN [f EXCEPT !.back = tmpPrev]
              ELSE [f EXCEPT !.nodes[tmpNext].prev = tmpPrev]
        f2 == IF tmpPrev = 0 THEN [f1 EXCEPT !.front = tmpNext]
              ELSE [f1 EXCEPT !.nodes[tmpPrev].next = tmpNext]
    IN  [f2 EXCEPT !.nodes[it].next = 0, !.nodes[it].prev = 0]

\* registerWaiting
registerWaiting(f, packetID, msg) ==
    LET f1 == PushBack(setBit(f, packetID), packetID, msg)
    IN  [f1 EXCEPT !.waitingIdx[packetID] = Len(f1.nodes)]

\* A releaseWaiting that ignores an identifier whose bit is clear.
releaseWaitingLenient(f, packetID) ==
    IF ~getBit(f, packetID) THEN [outcome |-> "ok", f |-> f]
    ELSE IF f.waitingIdx[packetID] = 0 THEN [outcome |-> "panic", f |-> f]
    ELSE [outcome |-> "ok", f |-> Remove(f, f.waitingIdx[packetID])]

\* releaseWaiting: outcome "panic" when the bit is clear, and when the index has no
\* element for the identifier (Remove dereferences nil).
releaseWaiting(f, packetID) ==
    IF ~getBit(f, packetID) THEN [outcome |-> "panic", f |-> f]
    ELSE IF f.waitingIdx[packetID] = 0 THEN [outcome |-> "panic", f |-> f]
    ELSE [outcome |-> "ok", f |-> Remove(f, f.waitingIdx[packetID])]

\* A replaceWaiting that leaves the stored message as it is.
replaceWaitingKeepsMessage(f, packetID, msg) == [outcome |-> "ok", f |-> f]

\* replaceWaiting: outcome "panic" when the bit is clear, and when the index has no
\* element for the identifier (theElement.msg dereferences nil).
replaceWaiting(f, packetID, msg) ==
    IF ~getBit(f, packetID) THEN [outcome |-> "panic", f |-> f]
    ELSE IF f.waitingIdx[packetID] = 0 THEN [outcome |-> "panic", f |-> f]
    ELSE [outcome |-> "ok", f |-> [f EXCEPT !.nodes[f.waitingIdx[packetID]].msg = msg]]

\* The nodes eachWaitingPacket visits from node e on, following next.
RECURSIVE waitingFrom(_, _, _)
waitingFrom(f, e, fuel) ==
    IF e = 0 \/ fuel = 0 THEN <<>>
    ELSE <<e>> \o waitingFrom(f, f.nodes[e].next, fuel - 1)

\* The nodes of the waiting list, front to back.
WaitingNodes(f) == waitingFrom(f, f.front, Len(f.nodes))

\* The identifiers of the waiting list, front to back.
WaitingIDs(f) == [i \in 1..Len(WaitingNodes(f)) |-> f.nodes[WaitingNodes(f)[i]].packetID]

\* The stored messages of the waiting list, front to back.
WaitingMsgs(f) == [i \in 1..Len(WaitingNodes(f)) |-> f.nodes[WaitingNodes(f)[i]].msg]

\* The entries <<identifier, message>> of the waiting list, front to back.
WaitingEntries(f) == [i \in 1..Len(WaitingNodes(f)) |-> <<WaitingIDs(f)[i], WaitingMsgs(f)[i]>>]

(***************************************************************************)
(* The broker at the far end of a transport.  It answers a packet when the  *)
(* packet is written; the answer waits in the transport until it is read.   *)
(***************************************************************************)
\* A CONNACK / PUBACK / PUBREC / PUBCOMP frame: type byte, length 2, two bytes.
Frame(h, b2, b3) == <<h, 2, b2, b3>>

ConnAckAccepted == Frame(ConnAckType * 16, 0, ConnectionAccepted)
ConnAckAcceptedSP == Frame(ConnAckType * 16, 1, ConnectionAccepted)
ConnAckRefused == Frame(ConnAckType * 16, 0, ConnectionRefusedNotAuthorized)
ConnAckWrongType == Frame(PublishType * 16, 0, ConnectionAccepted)
ConnAckWrongLength == <<ConnAckType * 16, 3, 0, ConnectionAccepted>>

\* What a broker may send back on a CONNECT; <<>> is a broker that stays silent.
ConnectReplies ==
    { <<ConnAckAccepted>>, <<ConnAckAcceptedSP>>, <<ConnAckRefused>>,
      <<ConnAckWrongType>>, <<ConnAckWrongLength>>, <<>> }

\* The packet identifier of a written PUBLISH (after the topic) or PUBREL/ack.
WirePacketID(bytes) ==
    IF bytes[1] \div 16 = PublishType
    THEN LET at == 4 + (bytes[3] * 256 + bytes[4])
         IN  bytes[at + 1] * 256 + bytes[at + 2]
    ELSE bytes[3] * 256 + bytes[4]

\* The QoS bits of a written PUBLISH.
WireQoS(bytes) == (bytes[1] \div 2) % 4

\* PUBACK for a QoS 1 PUBLISH, PUBREC for a QoS 2 PUBLISH, PUBCOMP for a PUBREL.
BrokerReply(bytes) ==
    LET type == bytes[1] \div 16 IN
    IF type = PublishType /\ WireQoS(bytes) = 1
    THEN <<Frame(PublishAckType * 16, Byte(ShiftRight(WirePacketID(bytes), 8)),
                 WirePacketID(bytes) % 256)>>
    ELSE IF type = PublishType /\ WireQoS(bytes) = 2
    THEN <<Frame(PublishReceivedType * 16, Byte(ShiftRight(WirePacketID(bytes), 8)),
                 WirePacketID(bytes) % 256)>>
    ELSE IF type = PublishReleaseType
    THEN <<Frame(PublishCompleteType * 16, Byte(ShiftRight(WirePacketID(bytes), 8)),
                 WirePacketID(bytes) % 256)>>
    ELSE <<>>

(***************************************************************************)
(* The Session and its goroutines.                                          *)
(***************************************************************************)
VARIABLES
    state,            \* Session.state
    inFlight,         \* Session.inFlight
    XIgnorePubAck,    \* Session.XIgnorePubAck
    XIgnorePubComp,   \* Session.XIgnorePubComp
    conn,             \* Session.options.Conn: the transport in use, 1..MaxConns
    toBroker,         \* Session.toBroker: the channel (made, q, closed) and all it was sent (log)
    writerAlive,      \* the goroutine of startSendToBroker is running
    ctl,              \* the caller of Connect / Disconnect / ReEstablish
    ctlRet,           \* what its last call returned
    pub,              \* the caller of Publish
    pubRet,           \* what its last call returned
    caller,           \* the calls the caller has left to make
    workers,          \* the connect/connack handler goroutines, one per Connect
    disp,             \* the handler goroutines of handleMessages with their readers
    inbound,          \* per transport: the frames the broker sent, not yet read
    wire,             \* every packet written to a transport, in order
    closedConns,      \* the transports the caller closed
    panicked,         \* "no", or why the process died
    ended,            \* history: Session.inFlight as it was when the last Disconnect returned
    codec,            \* a call of an encoding function on its own: input, output, position
    registered        \* history of a tracker used on its own: the <<identifier, message>>
                      \* registered and not released since, in the order of registration

vars == <<state, inFlight, XIgnorePubAck, XIgnorePubComp, conn, toBroker, writerAlive,
          ctl, ctlRet, pub, pubRet, caller, workers, disp, inbound, wire,
          closedConns, panicked, ended, codec, registered>>

sessionVars == <<state, inFlight, XIgnorePubAck, XIgnorePubComp>>
callerVars == <<ctl, ctlRet, ended, codec, registered>>
pubVars == <<pub, pubRet, caller>>
netVars == <<inbound, wire>>

Conns == 1..MaxConns

\* before is history: the tracker and the flags as Connect found them.
IdleCtl ==
    [pc |-> "idle", clean |-> TRUE, withMsg |-> TRUE, cursor |-> 0, mark |-> 0,
     before |-> <<>>]
IdlePub == [pc |-> "idle", qos |-> 0, id |-> 0]
NoRet == [op |-> "none", err |-> "none"]
NoCodec == [pc |-> "none"]

\* A call on the Session and its arguments.
BaseCall ==
    [op |-> "none", clean |-> FALSE, xAck |-> FALSE, xComp |-> FALSE, qos |-> 0,
     withMsg |-> FALSE]
ConnectCall(clean, xAck, xComp) ==
    [BaseCall EXCEPT !.op = "Connect", !.clean = clean, !.xAck = xAck, !.xComp = xComp]
PublishCall(qos) == [BaseCall EXCEPT !.op = "Publish", !.qos = qos]
DisconnectCall(withMsg) == [BaseCall EXCEPT !.op = "Disconnect", !.withMsg = withMsg]
ReEstablishCall == [BaseCall EXCEPT !.op = "ReEstablish"]
CloseCall == [BaseCall EXCEPT !.op = "Close"]

\* A caller that makes any MaxCalls calls, from two threads.
FreeCaller ==
    [scripted |-> FALSE, left |-> MaxCalls, script |-> <<>>, name |-> "any", rows |-> 0]

\* A caller that is one thread making the calls of a script: a command of cmd/pub
\* publishing `rows` messages.
ScriptedCaller(name, rows, script) ==
    [scripted |-> TRUE, left |-> 0, script |-> script, name |-> name, rows |-> rows]

\* NewSession: state INITIAL, no tracker, no toBroker channel yet.
InitSession ==
    /\ state = INITIAL
    /\ inFlight = NilInFlight
    /\ XIgnorePubAck = FALSE
    /\ XIgnorePubComp = FALSE
    /\ conn = 1
    /\ toBroker = [made |-> FALSE, q |-> <<>>, closed |-> FALSE, log |-> <<>>]
    /\ writerAlive = FALSE
    /\ ctl = IdleCtl
    /\ ctlRet = NoRet
    /\ pub = IdlePub
    /\ pubRet = "none"
    /\ workers = <<>>
    /\ disp = <<>>
    /\ inbound = [c \in Conns |-> <<>>]
    /\ wire = <<>>
    /\ closedConns = {}
    /\ panicked = "no"
    /\ ended = NilInFlight
    /\ codec = NoCodec
    /\ registered = <<>>

Init == InitSession /\ caller = FreeCaller

\* The callers make call c: a scripted caller is one thread that makes the calls
\* of its script in order, an unscripted caller any call while it has calls left.
Call(c) ==
    IF caller.scripted
    THEN /\ ctl.pc = "idle" /\ pub.pc = "idle"
         /\ caller.script # <<>>
         /\ Head(caller.script) = c
         /\ caller' = [caller EXCEPT !.script = Tail(@)]
    ELSE /\ caller.left > 0
         /\ caller' = [caller EXCEPT !.left = @ - 1]

\* The Session mutex: Connect and Disconnect hold the write lock from entry to
\* return, Publish holds the read lock from entry to return.
WriteLocked == ctl.pc # "idle"
ReadLocked == pub.pc # "idle"

\* The tracker mutex is held across steps only by eachWaitingPacket.
TrackerLocked == ctl.pc = "resend"

\* A write of bytes to the transport in use by task `by`, during connection
\* `epoch`; the broker's reply is queued on that transport.  A write to a closed
\* transport fails (ok is FALSE) and nothing is sent.
WriteConn(by, bytes, reply) ==
    /\ wire' = Append(wire, [conn |-> conn, by |-> by, epoch |-> Len(disp),
                             bytes |-> bytes, ok |-> conn \notin closedConns])
    /\ inbound' = IF conn \in closedConns THEN inbound
                  ELSE [inbound EXCEPT ![conn] = @ \o reply]

(***************************************************************************)
(* Connect.                                                                 *)
(***************************************************************************)
\* The options the callers of cmd/pub pass: <<CleanSession, XIgnorePubAck, XIgnorePubComp>>.
ConnectOptionSets ==
    { <<TRUE, FALSE, FALSE>>, <<TRUE, TRUE, FALSE>>,
      <<FALSE, FALSE, TRUE>>, <<FALSE, FALSE, FALSE>> }

\* s.state = CONNECTED, in Connect after the select.
StateAfterConnect == CONNECTED

\* A state check that lets Connect proceed in every state.
ConnectAllowedAlways(st) == TRUE

\* Connect's state check: INITIAL or DISCONNECTED.
ConnectAllowed(st) == st = INITIAL \/ st = DISCONNECTED

\* initInFlight
initInFlight(f, doClean) == IF f.nil \/ doClean THEN newInFlight ELSE f

\* A handler that does not look at the connect return code.
ConnAckResultAnyCode(response) ==
    IF response[1] # ConnAckType * 16 THEN "NotConnAck"
    ELSE IF response[2] # 2 THEN "BadLength"
    ELSE "nil"

\* What the connect/connack handler sends first on connectResult after reading
\* the four bytes of response: nil only when every check passes.
ConnAckResult(response) ==
    IF response[1] # ConnAckType * 16 THEN "NotConnAck"
    ELSE IF response[2] # 2 THEN "BadLength"
    ELSE IF response[4] # ConnectionAccepted THEN "Refused"
    ELSE "nil"

\* Connect in a state that does not allow it: returns the error at once.
ConnectBadState(clean, xAck, xComp) ==
    /\ panicked = "no"
    /\ Call(ConnectCall(clean, xAck, xComp))
    /\ ctl.pc = "idle" /\ ~ReadLocked
    /\ ~ConnectAllowed(state)
    /\ ctlRet' = [op |-> "Connect", err |-> "BadState"]
    /\ UNCHANGED <<sessionVars, conn, toBroker, writerAlive, ctl, pub, pubRet, workers,
                   disp, netVars, closedConns, panicked,
                   ended, codec, registered>>

\* Connect up to the select: the tracker is initialised, the flags are stored,
\* the timer and the connect/connack handler are started.
ConnectBegin(clean, xAck, xComp) ==
    /\ panicked = "no"
    /\ Call(ConnectCall(clean, xAck, xComp))
    /\ ctl.pc = "idle" /\ ~ReadLocked
    /\ ConnectAllowed(state)
    /\ inFlight' = initInFlight(inFlight, clean)
    /\ XIgnorePubAck' = xAck
    /\ XIgnorePubComp' = xComp
    /\ workers' = Append(workers, [pc |-> "write", clean |-> clean, conn |-> conn,
                                   response |-> <<>>, result |-> "none"])
    /\ ctl' = [IdleCtl EXCEPT !.pc = "connectWait", !.clean = clean,
                              !.before = <<inFlight, XIgnorePubAck, XIgnorePubComp>>]
    /\ UNCHANGED <<state, conn, toBroker, writerAlive, ctlRet, pub, pubRet, disp, netVars,
                   closedConns, panicked,
                   ended, codec, registered>>

\* A handler goroutine that has ended, or whose connectResult nobody reads any more.
WorkerDone == [pc |-> "done", clean |-> TRUE, conn |-> 0, response |-> <<>>, result |-> "none"]

\* Worker k belongs to the Connect call in progress.
Current(k) == ctl.pc = "connectWait" /\ k = Len(workers)

\* The workers after Connect returned: the one of this call is forgotten once it has
\* ended; one still running goes on without a reader of its connectResult.
AfterReturn(ws) ==
    [k \in 1..Len(ws) |-> IF ws[k].pc = "done" THEN WorkerDone
                          ELSE [ws[k] EXCEPT !.result = "none"]]

\* The error classes Connect returns from connectResult.
ConnectErrors == {"WriteError", "ReadError", "NotConnAck", "BadLength", "Refused"}

\* The handler writes CONNECT to the transport in use; a write error is the
\* first thing sent on connectResult.  It then blocks reading that transport.
WorkerWrite(k, replies) ==
    /\ panicked = "no"
    /\ workers[k].pc = "write"
    /\ \E reply \in replies :
          WriteConn("worker", WriteTo(ConnectMessage(workers[k].clean)), reply)
    /\ workers' = [workers EXCEPT ![k].pc = "read", ![k].conn = conn,
                                  ![k].result = IF conn \in closedConns /\ Current(k)
                                                THEN "WriteError" ELSE @]
    /\ UNCHANGED <<sessionVars, conn, toBroker, writerAlive, callerVars, pubVars, disp,
                   closedConns, panicked>>

\* io.ReadFull of four bytes: the next frame of the transport, or an error when
\* the transport is closed.  The first value sent on connectResult is kept.
WorkerRead(k) ==
    /\ panicked = "no"
    /\ workers[k].pc = "read"
    /\ LET c == workers[k].conn IN
       \/ /\ c \notin closedConns
          /\ inbound[c] # <<>>
          /\ inbound' = [inbound EXCEPT ![c] = Tail(@)]
          /\ workers' = IF Current(k)
                        THEN [workers EXCEPT
                                 ![k].pc = "done",
                                 ![k].response = Head(inbound[c]),
                                 ![k].result = IF @ = "none"
                                               THEN ConnAckResult(Head(inbound[c])) ELSE @]
                        ELSE [workers EXCEPT ![k] = WorkerDone]
       \/ /\ c \in closedConns
          /\ workers' = IF Current(k)
                        THEN [workers EXCEPT
                                 ![k].pc = "done",
                                 ![k].result = IF @ = "none" THEN "ReadError" ELSE @]
                        ELSE [workers EXCEPT ![k] = WorkerDone]
          /\ UNCHANGED inbound
    /\ UNCHANGED <<sessionVars, conn, toBroker, writerAlive, callerVars, pubVars, disp,
                   wire, closedConns, panicked>>

\* The handler of the Connect in progress waits for bytes that have not come.
HandshakeWaits ==
    LET w == workers[Len(workers)]
    IN  w.pc = "read" /\ w.conn \notin closedConns /\ inbound[w.conn] = <<>>

\* A timer whose value is no error.
ErrNone == "nil"

\* var ErrTIMEOUT = errors.New("TIMEOUT")
ErrTIMEOUT == "TIMEOUT"

\* The select takes the timer's value: Connect returns ErrTIMEOUT.  A timer that
\* is not `early` outlasts every step the handler can take.
ConnectTimeout(early) ==
    /\ panicked = "no"
    /\ ctl.pc = "connectWait"
    /\ early \/ HandshakeWaits
    /\ ctl' = IdleCtl
    /\ ctlRet' = [op |-> "Connect", err |-> ErrTIMEOUT]
    /\ workers' = AfterReturn(workers)
    /\ UNCHANGED <<sessionVars, conn, toBroker, writerAlive, pubVars, disp,
                   netVars, closedConns, panicked,
                   ended, codec, registered>>

\* The select takes an error from connectResult: Connect returns it.
ConnectError ==
    /\ panicked = "no"
    /\ ctl.pc = "connectWait"
    /\ workers[Len(workers)].result \in ConnectErrors
    /\ ctl' = IdleCtl
    /\ ctlRet' = [op |-> "Connect", err |-> workers[Len(workers)].result]
    /\ workers' = AfterReturn(workers)
    /\ UNCHANGED <<sessionVars, conn, toBroker, writerAlive, pubVars, disp,
                   netVars, closedConns, panicked,
                   ended, codec, registered>>

\* A new handler goroutine with its reader (handleMessages).  stopped records
\* that the handler has sent on s.stopped.
NewDispatcher ==
    [pc |-> "select", messages |-> <<>>, timer |-> FALSE, cur |-> 0,
     rpc |-> "read", rconn |-> conn, stopped |-> FALSE]

\* The select takes nil from connectResult: state CONNECTED, handleMessages,
\* startSendToBroker; a non clean session goes on to resend under the tracker lock.
ConnectAccepted ==
    /\ panicked = "no"
    /\ ctl.pc = "connectWait"
    /\ workers[Len(workers)].result = "nil"
    /\ state' = StateAfterConnect
    /\ disp' = Append(disp, NewDispatcher)
    /\ toBroker' = [made |-> TRUE, q |-> <<>>, closed |-> FALSE, log |-> <<>>]
    /\ writerAlive' = TRUE
    /\ workers' = AfterReturn(workers)
    /\ IF ctl.clean
       THEN /\ ctl' = IdleCtl
            /\ ctlRet' = [op |-> "Connect", err |-> "nil"]
       ELSE /\ ctl' = [ctl EXCEPT !.pc = "resend", !.cursor = inFlight.front]
            /\ UNCHANGED ctlRet
    /\ UNCHANGED <<inFlight, XIgnorePubAck, XIgnorePubComp, conn, pubVars,
                   netVars, closedConns, panicked,
                   ended, codec, registered>>

\* A WriteDupTo that sets the DUP bit in the message it is called on.
StoredAfterWriteDupToFlagged(m) == GenericMessage(OrBit(m.fixedHeader, DupBit), m.body)

\* The message WriteDupTo was called on, after the call: m2 is m or a new
\* GenericMessage, and WriteTo only reads, so m is as it was.
StoredAfterWriteDupTo(m) == m

\* One turn of eachWaitingPacket in Connect: msg.WriteDupTo(s.options.Conn).
ResendStep ==
    /\ panicked = "no"
    /\ ctl.pc = "resend"
    /\ ctl.cursor # 0
    /\ WriteConn("resend", WriteDupTo(inFlight.nodes[ctl.cursor].msg),
                 BrokerReply(WriteDupTo(inFlight.nodes[ctl.cursor].msg)))
    /\ ctl' = [ctl EXCEPT !.cursor = inFlight.nodes[ctl.cursor].next]
    /\ inFlight' = [inFlight EXCEPT !.nodes[ctl.cursor].msg = StoredAfterWriteDupTo(@)]
    /\ UNCHANGED <<state, XIgnorePubAck, XIgnorePubComp, conn, toBroker, writerAlive, ctlRet, pubVars, workers,
                   disp, closedConns, panicked,
                   ended, codec, registered>>

\* The end of the waiting list: the tracker lock is released, Connect returns nil.
ResendDone ==
    /\ panicked = "no"
    /\ ctl.pc = "resend"
    /\ ctl.cursor = 0
    /\ ctl' = IdleCtl
    /\ ctlRet' = [op |-> "Connect", err |-> "nil"]
    /\ UNCHANGED <<sessionVars, conn, toBroker, writerAlive, pubVars, workers, disp,
                   netVars, closedConns, panicked,
                   ended, codec, registered>>

(***************************************************************************)
(* Disconnect and DisconnectWithoutMessage.                                 *)
(***************************************************************************)
\* A Disconnect that returns nil in every state it does not flush in.
DisconnectResultAlwaysNil(st) == "nil"

\* What Disconnect returns outside CONNECTED: nil in INITIAL, else the error.
DisconnectResult(st) == IF st = INITIAL THEN "nil" ELSE "BadState"

\* Called in INITIAL: nothing to do, nil.  Called in another state than
\* CONNECTED: an error.
DisconnectNotConnected(withMsg) ==
    /\ panicked = "no"
    /\ Call(DisconnectCall(withMsg))
    /\ ctl.pc = "idle" /\ ~ReadLocked
    /\ state # CONNECTED
    /\ ctlRet' = [op |-> IF withMsg THEN "Disconnect" ELSE "DisconnectWithoutMessage",
                  err |-> DisconnectResult(state)]
    /\ UNCHANGED <<sessionVars, conn, toBroker, writerAlive, ctl, pub, pubRet, workers,
                   disp, netVars, closedConns, panicked,
                   ended, codec, registered>>

\* Called in CONNECTED: about to send the timeout on stopAfter.
DisconnectBegin(withMsg) ==
    /\ panicked = "no"
    /\ Call(DisconnectCall(withMsg))
    /\ ctl.pc = "idle" /\ ~ReadLocked
    /\ state = CONNECTED
    /\ ctl' = [IdleCtl EXCEPT !.pc = "stopAfter", !.withMsg = withMsg,
                              !.mark = Len(toBroker.log)]
    /\ UNCHANGED <<sessionVars, conn, toBroker, writerAlive, ctlRet, pub, pubRet, workers,
                   disp, netVars, closedConns, panicked,
                   ended, codec, registered>>

\* s.stopAfter <- timeout meets a handler's select: the handler starts its timer.
DispatcherStopAfter(d) ==
    /\ panicked = "no"
    /\ ctl.pc = "stopAfter"
    /\ disp[d].pc = "select"
    /\ disp' = [disp EXCEPT ![d].timer = TRUE]
    /\ ctl' = [ctl EXCEPT !.pc = "stopped"]
    /\ UNCHANGED <<sessionVars, conn, toBroker, writerAlive, ctlRet, pubVars, workers,
                   netVars, closedConns, panicked,
                   ended, codec, registered>>

\* Nothing is on its way: every frame the broker sent is read and handled, every
\* message sent on toBroker is written.
Quiescent ==
    /\ toBroker.q = <<>>
    /\ pub.pc = "idle"
    /\ \A d \in 1..Len(disp) :
          /\ disp[d].messages = <<>>
          /\ disp[d].pc \in {"select", "stopped"}
          /\ disp[d].rpc = "read" /\ disp[d].rconn \notin closedConns
                => inbound[disp[d].rconn] = <<>>

\* The timer's timeout <- true meets the handler's select: case <-timeout.  A
\* timer that is not `early` outlasts the traffic under way.
DispatcherTimeout(d, early) ==
    /\ panicked = "no"
    /\ disp[d].pc = "select"
    /\ disp[d].timer
    /\ early \/ Quiescent
    /\ disp' = [disp EXCEPT ![d].timer = FALSE, ![d].pc = "stopped"]
    /\ UNCHANGED <<sessionVars, conn, toBroker, writerAlive, callerVars, pubVars, workers,
                   netVars, closedConns, panicked>>

\* A DisconnectWithoutMessage that enqueues the DISCONNECT all the same.
AfterStoppedEnqueue(withMsg) == "enqueue"

\* What follows <-s.stopped: Disconnect sends the DISCONNECT message on toBroker,
\* DisconnectWithoutMessage goes on to close(s.toBroker).
AfterStopped(withMsg) == IF withMsg THEN "enqueue" ELSE "close"

\* s.stopped <- true meets <-s.stopped.  The break leaves the select only: the
\* handler goes round its for loop again.
DispatcherStopped(d) ==
    /\ panicked = "no"
    /\ disp[d].pc = "stopped"
    /\ ctl.pc = "stopped"
    /\ disp' = [disp EXCEPT ![d].pc = "select", ![d].stopped = TRUE]
    /\ ctl' = [ctl EXCEPT !.pc = AfterStopped(ctl.withMsg)]
    /\ UNCHANGED <<sessionVars, conn, toBroker, writerAlive, ctlRet, pubVars, workers,
                   netVars, closedConns, panicked,
                   ended, codec, registered>>

\* A channel that hands out the message sent last first.
SendFront(ch, msg) == [ch EXCEPT !.q = <<msg>> \o @, !.log = Append(@, msg)]

\* A send on the toBroker channel.
Send(ch, msg) == [ch EXCEPT !.q = Append(@, msg), !.log = Append(@, msg)]

\* Disconnect: s.toBroker <- NewDisconnectMessage()
DisconnectEnqueue ==
    /\ panicked = "no"
    /\ ctl.pc = "enqueue"
    /\ toBroker' = Send(toBroker, NewDisconnectMessage)
    /\ ctl' = [ctl EXCEPT !.pc = "close"]
    /\ UNCHANGED <<sessionVars, conn, writerAlive, ctlRet, pubVars, workers, disp,
                   netVars, closedConns, panicked,
                   ended, codec, registered>>

\* close(s.toBroker)
DisconnectClose ==
    /\ panicked = "no"
    /\ ctl.pc = "close"
    /\ toBroker' = [toBroker EXCEPT !.closed = TRUE]
    /\ ctl' = [ctl EXCEPT !.pc = "drained"]
    /\ UNCHANGED <<sessionVars, conn, writerAlive, ctlRet, pubVars, workers, disp,
                   netVars, closedConns, panicked,
                   ended, codec, registered>>

(***************************************************************************)
(* The writer goroutine of startSendToBroker.                               *)
(***************************************************************************)
\* for message := range s.toBroker { message.WriteTo(s.options.Conn) }
WriterWrite ==
    /\ panicked = "no"
    /\ writerAlive
    /\ toBroker.q # <<>>
    /\ WriteConn("writer", WriteTo(Head(toBroker.q)), BrokerReply(WriteTo(Head(toBroker.q))))
    /\ toBroker' = [toBroker EXCEPT !.q = Tail(@)]
    /\ UNCHANGED <<sessionVars, conn, writerAlive, callerVars, pubVars, workers, disp,
                   closedConns, panicked>>

\* A Disconnect that leaves the Session in DISCONNECTING.
StateAfterDisconnectStuck == DISCONNECTING

\* s.state = DISCONNECTED, the last statement of Disconnect and DisconnectWithoutMessage.
StateAfterDisconnect == DISCONNECTED

\* A range loop that ends as soon as the channel is closed.
RangeEndsOnClose(ch) == ch.closed

\* for message := range s.toBroker ends when the channel is closed and empty.
RangeEnds(ch) == ch.q = <<>> /\ ch.closed

\* The channel is closed and empty: s.drained <- true meets <-s.drained, and
\* Disconnect sets the state and returns nil.
WriterDrained ==
    /\ panicked = "no"
    /\ writerAlive
    /\ RangeEnds(toBroker)
    /\ ctl.pc = "drained"
    /\ writerAlive' = FALSE
    /\ state' = StateAfterDisconnect
    /\ ended' = inFlight
    /\ ctlRet' = [op |-> IF ctl.withMsg THEN "Disconnect" ELSE "DisconnectWithoutMessage",
                  err |-> "nil"]
    /\ ctl' = IdleCtl
    /\ UNCHANGED <<inFlight, XIgnorePubAck, XIgnorePubComp, conn, toBroker, pubVars,
                   workers, disp, netVars, closedConns, panicked, codec, registered>>

(***************************************************************************)
(* The caller's transports: ReEstablish and conn.Close().                   *)
(***************************************************************************)
\* The caller dials a new transport and gives it to the Session (no lock taken).
ReEstablish ==
    /\ panicked = "no"
    /\ ctl.pc = "idle"
    /\ Call(ReEstablishCall)
    /\ conn < MaxConns
    /\ conn' = conn + 1
    /\ ctlRet' = [op |-> "ReEstablish", err |-> "nil"]
    /\ UNCHANGED <<sessionVars, toBroker, writerAlive, ctl, pub, pubRet, workers, disp,
                   netVars, closedConns, panicked,
                   ended, codec, registered>>

\* The caller closes the transport the Session uses: what the broker sent and
\* was not read is lost, reads and writes fail from now on.
CloseTransport ==
    /\ panicked = "no"
    /\ ctl.pc = "idle"
    /\ Call(CloseCall)
    /\ conn \notin closedConns
    /\ closedConns' = closedConns \cup {conn}
    /\ inbound' = [inbound EXCEPT ![conn] = <<>>]
    /\ ctlRet' = [op |-> "Close", err |-> "nil"]
    /\ UNCHANGED <<sessionVars, conn, toBroker, writerAlive, ctl, pub, pubRet, workers,
                   disp, wire, panicked,
                   ended, codec, registered>>

(***************************************************************************)
(* The reader and handler goroutines of handleMessages.                     *)
(***************************************************************************)
\* The reader: one fixed header byte, the remaining length, the body; the
\* message goes to the handler's messages channel.  s.options.Conn is read anew
\* for the next message.  A frame announcing more than it carries blocks the read.
ReaderRead(d) ==
    /\ panicked = "no"
    /\ disp[d].rpc = "read"
    /\ disp[d].rconn \notin closedConns
    /\ inbound[disp[d].rconn] # <<>>
    /\ LET frame == Head(inbound[disp[d].rconn]) IN
       /\ inbound' = [inbound EXCEPT ![disp[d].rconn] = Tail(@)]
       /\ disp' = IF frame[2] = 2
                  THEN [disp EXCEPT ![d].messages =
                                        Append(@, GenericMessage(frame[1], <<frame[3], frame[4]>>)),
                                    ![d].rconn = conn]
                  ELSE [disp EXCEPT ![d].rpc = "blocked"]
    /\ UNCHANGED <<sessionVars, conn, toBroker, writerAlive, callerVars, pubVars, workers,
                   wire, closedConns, panicked>>

\* The transport is closed: the reader leaves its loop.
ReaderEOF(d) ==
    /\ panicked = "no"
    /\ disp[d].rpc \in {"read", "blocked"}
    /\ disp[d].rconn \in closedConns
    /\ disp' = [disp EXCEPT ![d].rpc = "done"]
    /\ UNCHANGED <<sessionVars, conn, toBroker, writerAlive, callerVars, pubVars, workers,
                   netVars, closedConns, panicked>>

\* packetID := int(body[0])<<8 | int(body[1])
BodyPacketID(body) == body[1] * 256 + body[2]

\* Handlers that ignore no message.
IgnoredNever(type) == FALSE

\* The early returns of processPublishAck and processPublishReceived
\* (s.XIgnorePubAck) and of processPublishComplete (s.XIgnorePubComp).
Ignored(type) ==
    \/ type \in {PublishAckType, PublishReceivedType} /\ XIgnorePubAck
    \/ type = PublishCompleteType /\ XIgnorePubComp

\* case msg := <-messages with a PUBACK or PUBREC, ignored (XIgnorePubAck).
DispatcherAckIgnored(d) ==
    /\ panicked = "no"
    /\ disp[d].pc = "select"
    /\ disp[d].messages # <<>>
    /\ ShiftRight(Head(disp[d].messages).fixedHeader, 4) \in {PublishAckType, PublishReceivedType}
    /\ Ignored(ShiftRight(Head(disp[d].messages).fixedHeader, 4))
    /\ disp' = [disp EXCEPT ![d].messages = Tail(@)]
    /\ UNCHANGED <<sessionVars, conn, toBroker, writerAlive, callerVars, pubVars, workers,
                   netVars, closedConns, panicked>>

\* case msg := <-messages with a PUBCOMP, ignored (XIgnorePubComp).
DispatcherCompIgnored(d) ==
    /\ panicked = "no"
    /\ disp[d].pc = "select"
    /\ disp[d].messages # <<>>
    /\ ShiftRight(Head(disp[d].messages).fixedHeader, 4) = PublishCompleteType
    /\ Ignored(ShiftRight(Head(disp[d].messages).fixedHeader, 4))
    /\ disp' = [disp EXCEPT ![d].messages = Tail(@)]
    /\ UNCHANGED <<sessionVars, conn, toBroker, writerAlive, callerVars, pubVars, workers,
                   netVars, closedConns, panicked>>

\* processPublishAck / processPublishComplete up to releaseWaiting.
DispatcherRelease(d) ==
    /\ panicked = "no"
    /\ disp[d].pc = "select"
    /\ disp[d].messages # <<>>
    /\ ~TrackerLocked
    /\ LET msg == Head(disp[d].messages)
           type == ShiftRight(msg.fixedHeader, 4)
           packetID == BodyPacketID(msg.body)
           r == releaseWaiting(inFlight, packetID)
       IN  /\ type \in {PublishAckType, PublishCompleteType}
           /\ ~Ignored(type)
           /\ IF r.outcome = "panic"
              THEN /\ panicked' = "releaseWaiting"
                   /\ disp' = [disp EXCEPT ![d].messages = Tail(@), ![d].cur = packetID]
                   /\ UNCHANGED inFlight
              ELSE /\ inFlight' = r.f
                   /\ disp' = [disp EXCEPT ![d].messages = Tail(@), ![d].pc = "unset",
                                           ![d].cur = packetID]
                   /\ UNCHANGED panicked
    /\ UNCHANGED <<state, XIgnorePubAck, XIgnorePubComp, conn, toBroker, writerAlive,
                   callerVars, pubVars, workers, netVars, closedConns>>

\* processPublishAck / processPublishComplete: s.inFlight.unsetBit(packetID)
DispatcherUnset(d) ==
    /\ panicked = "no"
    /\ disp[d].pc = "unset"
    /\ inFlight' = unsetBit(inFlight, disp[d].cur)
    /\ disp' = [disp EXCEPT ![d].pc = "select", ![d].cur = 0]
    /\ UNCHANGED <<state, XIgnorePubAck, XIgnorePubComp, conn, toBroker, writerAlive,
                   callerVars, pubVars, workers, netVars, closedConns, panicked>>

\* processPublishReceived up to replaceWaiting.
DispatcherReplace(d) ==
    /\ panicked = "no"
    /\ disp[d].pc = "select"
    /\ disp[d].messages # <<>>
    /\ ~TrackerLocked
    /\ LET msg == Head(disp[d].messages)
           packetID == BodyPacketID(msg.body)
           r == replaceWaiting(inFlight, packetID, ReleaseMessage(packetID))
       IN  /\ ShiftRight(msg.fixedHeader, 4) = PublishReceivedType
           /\ ~Ignored(PublishReceivedType)
           /\ IF r.outcome = "panic"
              THEN /\ panicked' = "replaceWaiting"
                   /\ disp' = [disp EXCEPT ![d].messages = Tail(@), ![d].cur = packetID]
                   /\ UNCHANGED inFlight
              ELSE /\ inFlight' = r.f
                   /\ disp' = [disp EXCEPT ![d].messages = Tail(@), ![d].pc = "release",
                                           ![d].cur = packetID]
                   /\ UNCHANGED panicked
    /\ UNCHANGED <<state, XIgnorePubAck, XIgnorePubComp, conn, toBroker, writerAlive,
                   callerVars, pubVars, workers, netVars, closedConns>>

\* processPublishReceived: s.toBroker <- releaseMsg.  A send on a closed channel
\* panics.
DispatcherSendRelease(d) ==
    /\ panicked = "no"
    /\ disp[d].pc = "release"
    /\ IF toBroker.closed
       THEN /\ panicked' = "send on closed channel"
            /\ UNCHANGED <<toBroker, disp>>
       ELSE /\ toBroker' = Send(toBroker, ReleaseMessage(disp[d].cur))
            /\ disp' = [disp EXCEPT ![d].pc = "select", ![d].cur = 0]
            /\ UNCHANGED panicked
    /\ UNCHANGED <<sessionVars, conn, writerAlive, callerVars, pubVars, workers, netVars,
                   closedConns>>

\* The default case of the switch: any other message type panics.
DispatcherUnhandled(d) ==
    /\ panicked = "no"
    /\ disp[d].pc = "select"
    /\ disp[d].messages # <<>>
    /\ ShiftRight(Head(disp[d].messages).fixedHeader, 4)
          \notin {PublishAckType, PublishReceivedType, PublishCompleteType}
    /\ panicked' = "unhandled message type"
    /\ disp' = [disp EXCEPT ![d].messages = Tail(@)]
    /\ UNCHANGED <<sessionVars, conn, toBroker, writerAlive, callerVars, pubVars, workers,
                   netVars, closedConns>>

(***************************************************************************)
(* Publish.                                                                 *)
(***************************************************************************)
\* A state check that lets Publish proceed in every state.
PublishAllowedAlways(st) == TRUE

\* Publish's state check: CONNECTED.
PublishAllowed(st) == st = CONNECTED

\* Publish in a state other than CONNECTED: the error.
PublishNotConnected(qos) ==
    /\ panicked = "no"
    /\ pub.pc = "idle" /\ ~WriteLocked
    /\ Call(PublishCall(qos))
    /\ ~PublishAllowed(state)
    /\ pubRet' = "BadState"
    /\ UNCHANGED <<sessionVars, conn, toBroker, writerAlive, callerVars, pub, workers,
                   disp, netVars, closedConns, panicked>>

\* Publish in CONNECTED, up to the choice on QoS and PacketID.
PublishBegin(qos) ==
    /\ panicked = "no"
    /\ pub.pc = "idle" /\ ~WriteLocked
    /\ Call(PublishCall(qos))
    /\ PublishAllowed(state)
    /\ pub' = [pc |-> IF qos > 0 THEN "nextPacketID" ELSE "send", qos |-> qos, id |-> 0]
    /\ pubRet' = "none"
    /\ UNCHANGED <<sessionVars, conn, toBroker, writerAlive, callerVars, workers, disp,
                   netVars, closedConns, panicked>>

\* pr.options.PacketID = s.inFlight.nextPacketID()
PublishNextPacketID ==
    /\ panicked = "no"
    /\ pub.pc = "nextPacketID"
    /\ ~TrackerLocked
    /\ LET r == nextPacketID(inFlight) IN
       IF r.outcome = "ok"
       THEN /\ inFlight' = r.f
            /\ pub' = [pub EXCEPT !.pc = "registerWaiting", !.id = r.id]
            /\ UNCHANGED panicked
       ELSE /\ panicked' = (IF r.outcome = "panic" THEN "No free packet IDs"
                            ELSE "nextPacketID does not return")
            /\ UNCHANGED <<inFlight, pub>>
    /\ UNCHANGED <<state, XIgnorePubAck, XIgnorePubComp, conn, toBroker, writerAlive,
                   callerVars, pubRet, caller, workers, disp, netVars, closedConns>>

\* s.inFlight.registerWaiting(pr.options.PacketID, msg)
PublishRegisterWaiting ==
    /\ panicked = "no"
    /\ pub.pc = "registerWaiting"
    /\ ~TrackerLocked
    /\ inFlight' = registerWaiting(inFlight, pub.id, PublishMessage(pub.qos, pub.id))
    /\ pub' = [pub EXCEPT !.pc = "send"]
    /\ UNCHANGED <<state, XIgnorePubAck, XIgnorePubComp, conn, toBroker, writerAlive,
                   callerVars, pubRet, caller, workers, disp, netVars, closedConns,
                   panicked>>

\* s.toBroker <- msg; return nil
PublishSend ==
    /\ panicked = "no"
    /\ pub.pc = "send"
    /\ IF toBroker.closed
       THEN /\ panicked' = "send on closed channel"
            /\ UNCHANGED <<toBroker, pub, pubRet>>
       ELSE /\ toBroker' = Send(toBroker, PublishMessage(pub.qos, pub.id))
            /\ pub' = IdlePub
            /\ pubRet' = "nil"
            /\ UNCHANGED panicked
    /\ UNCHANGED <<sessionVars, conn, writerAlive, callerVars, caller, workers, disp,
                   netVars, closedConns>>

(***************************************************************************)
(* The Session under any caller.                                            *)
(***************************************************************************)
Next ==
    \/ \E o \in ConnectOptionSets : ConnectBadState(o[1], o[2], o[3])
    \/ \E o \in ConnectOptionSets : ConnectBegin(o[1], o[2], o[3])
    \/ \E k \in 1..Len(workers) : WorkerWrite(k, ConnectReplies)
    \/ \E k \in 1..Len(workers) : WorkerRead(k)
    \/ ConnectTimeout(FALSE)
    \/ ConnectError
    \/ ConnectAccepted
    \/ ResendStep
    \/ ResendDone
    \/ \E withMsg \in BOOLEAN : DisconnectNotConnected(withMsg)
    \/ \E withMsg \in BOOLEAN : DisconnectBegin(withMsg)
    \/ \E d \in 1..Len(disp) : DispatcherStopAfter(d)
    \/ \E d \in 1..Len(disp) : DispatcherTimeout(d, TRUE)
    \/ \E d \in 1..Len(disp) : DispatcherStopped(d)
    \/ DisconnectEnqueue
    \/ DisconnectClose
    \/ WriterWrite
    \/ WriterDrained
    \/ ReEstablish
    \/ CloseTransport
    \/ \E d \in 1..Len(disp) : ReaderRead(d)
    \/ \E d \in 1..Len(disp) : ReaderEOF(d)
    \/ \E d \in 1..Len(disp) : DispatcherAckIgnored(d)
    \/ \E d \in 1..Len(disp) : DispatcherCompIgnored(d)
    \/ \E d \in 1..Len(disp) : DispatcherRelease(d)
    \/ \E d \in 1..Len(disp) : DispatcherUnset(d)
    \/ \E d \in 1..Len(disp) : DispatcherReplace(d)
    \/ \E d \in 1..Len(disp) : DispatcherSendRelease(d)
    \/ \E d \in 1..Len(disp) : DispatcherUnhandled(d)
    \/ \E qos \in 0..2 : PublishNotConnected(qos)
    \/ \E qos \in 0..2 : PublishBegin(qos)
    \/ PublishNextPacketID
    \/ PublishRegisterWaiting
    \/ PublishSend

Spec == Init /\ [][Next]_vars

\* The goroutines of a Disconnect are scheduled fairly: the handlers, their
\* timers, the writer, and Disconnect itself take the steps they can take.
SpecLive ==
    /\ Init /\ [][Next]_vars
    /\ WF_vars(\E d \in 1..Len(disp) : DispatcherStopAfter(d))
    /\ WF_vars(\E d \in 1..Len(disp) : DispatcherTimeout(d, TRUE))
    /\ WF_vars(\E d \in 1..Len(disp) : DispatcherStopped(d))
    /\ WF_vars(\E d \in 1..Len(disp) : DispatcherUnset(d))
    /\ WF_vars(\E d \in 1..Len(disp) : DispatcherSendRelease(d))
    /\ WF_vars(DisconnectEnqueue)
    /\ WF_vars(DisconnectClose)
    /\ WF_vars(WriterWrite)
    /\ WF_vars(WriterDrained)

(***************************************************************************)
(* The handshake under a connect timer that may fire at any moment: a       *)
(* caller that connects, disconnects and changes transports, and a broker   *)
(* that answers CONNECT in any way or not at all.                           *)
(***************************************************************************)
NextHandshake ==
    \/ \E o \in ConnectOptionSets : ConnectBadState(o[1], o[2], o[3])
    \/ \E o \in ConnectOptionSets : ConnectBegin(o[1], o[2], o[3])
    \/ \E k \in 1..Len(workers) : WorkerWrite(k, ConnectReplies)
    \/ \E k \in 1..Len(workers) : WorkerRead(k)
    \/ ConnectTimeout(TRUE)
    \/ ConnectError
    \/ ConnectAccepted
    \/ ResendDone
    \/ \E withMsg \in BOOLEAN : DisconnectNotConnected(withMsg)
    \/ \E withMsg \in BOOLEAN : DisconnectBegin(withMsg)
    \/ \E d \in 1..Len(disp) : DispatcherStopAfter(d)
    \/ \E d \in 1..Len(disp) : DispatcherTimeout(d, TRUE)
    \/ \E d \in 1..Len(disp) : DispatcherStopped(d)
    \/ DisconnectEnqueue
    \/ DisconnectClose
    \/ WriterWrite
    \/ WriterDrained
    \/ ReEstablish
    \/ CloseTransport
    \/ \E d \in 1..Len(disp) : ReaderRead(d)
    \/ \E d \in 1..Len(disp) : ReaderEOF(d)
    \/ \E d \in 1..Len(disp) : DispatcherUnhandled(d)

InitHandshake == InitSession /\ caller = [FreeCaller EXCEPT !.left = MaxHandshakeCalls]

SpecHandshake == InitHandshake /\ [][NextHandshake]_vars

\* The connect timer fires: the sleep of the timeout producer ends, its send on
\* the buffered timeOut channel cannot block, and the select is then ready.
SpecHandshakeLive ==
    InitHandshake /\ [][NextHandshake]_vars /\ WF_vars(ConnectTimeout(TRUE))

(***************************************************************************)
(* The Session under the publisher of cmd/pub: one thread that runs         *)
(* standardPublish, qos1ResendPublish or qos2ResendPublish against a broker *)
(* that accepts every CONNECT, with timers (one second each) that outlast   *)
(* the traffic under way.                                                   *)
(***************************************************************************)
\* publishGivenMessage: one Publish (publishMessage) or one per row (publishFromFile).
publishGivenMessage(rows, qos) == [i \in 1..rows |-> PublishCall(qos)]

\* publisher.disconnect and the end of a pass: Disconnect or
\* DisconnectWithoutMessage (TestNoDisconnect), then conn.Close().
disconnect(withMsg) == <<DisconnectCall(withMsg), CloseCall>>

standardPublish(rows, qos, withMsg) ==
    <<ConnectCall(TRUE, FALSE, FALSE)>> \o publishGivenMessage(rows, qos)
        \o disconnect(withMsg)

qos1ResendPublish(rows, withMsg) ==
    <<ConnectCall(TRUE, TRUE, FALSE)>> \o publishGivenMessage(rows, 1)
        \o disconnect(withMsg)
        \o <<ReEstablishCall, ConnectCall(FALSE, FALSE, FALSE)>> \o disconnect(withMsg)

qos2ResendPublish(rows, withMsg) ==
    <<ConnectCall(TRUE, TRUE, FALSE)>> \o publishGivenMessage(rows, 2)
        \o disconnect(withMsg)
        \o <<ReEstablishCall, ConnectCall(FALSE, FALSE, TRUE)>> \o disconnect(withMsg)
        \o <<ReEstablishCall, ConnectCall(FALSE, FALSE, FALSE)>> \o disconnect(withMsg)

\* The runs of cmd/pub: the command, the rows published, the QoS, and whether
\* TestNoDisconnect is off.
Publishers ==
    {ScriptedCaller("standardPublish", rows, standardPublish(rows, qos, withMsg)) :
        rows \in 1..MaxRows, qos \in 0..2, withMsg \in BOOLEAN}
    \cup {ScriptedCaller("qos1ResendPublish", rows, qos1ResendPublish(rows, withMsg)) :
             rows \in 1..MaxRows, withMsg \in BOOLEAN}
    \cup {ScriptedCaller("qos2ResendPublish", rows, qos2ResendPublish(rows, withMsg)) :
             rows \in 1..MaxRows, withMsg \in BOOLEAN}

InitPublisher == InitSession /\ caller \in Publishers

NextPublisher ==
    \/ \E o \in ConnectOptionSets : ConnectBegin(o[1], o[2], o[3])
    \/ \E k \in 1..Len(workers) : WorkerWrite(k, {<<ConnAckAccepted>>, <<ConnAckAcceptedSP>>})
    \/ \E k \in 1..Len(workers) : WorkerRead(k)
    \/ ConnectAccepted
    \/ ResendStep
    \/ ResendDone
    \/ \E withMsg \in BOOLEAN : DisconnectBegin(withMsg)
    \/ \E d \in 1..Len(disp) : DispatcherStopAfter(d)
    \/ \E d \in 1..Len(disp) : DispatcherTimeout(d, FALSE)
    \/ \E d \in 1..Len(disp) : DispatcherStopped(d)
    \/ DisconnectEnqueue
    \/ DisconnectClose
    \/ WriterWrite
    \/ WriterDrained
    \/ ReEstablish
    \/ CloseTransport
    \/ \E d \in 1..Len(disp) : ReaderRead(d)
    \/ \E d \in 1..Len(disp) : ReaderEOF(d)
    \/ \E d \in 1..Len(disp) : DispatcherAckIgnored(d)
    \/ \E d \in 1..Len(disp) : DispatcherCompIgnored(d)
    \/ \E d \in 1..Len(disp) : DispatcherRelease(d)
    \/ \E d \in 1..Len(disp) : DispatcherUnset(d)
    \/ \E d \in 1..Len(disp) : DispatcherReplace(d)
    \/ \E d \in 1..Len(disp) : DispatcherSendRelease(d)
    \/ \E qos \in 0..2 : PublishBegin(qos)
    \/ PublishNextPacketID
    \/ PublishRegisterWaiting
    \/ PublishSend

SpecPublisher == InitPublisher /\ [][NextPublisher]_vars

(***************************************************************************)
(* The Session used for connections in turn: one thread that connects,      *)
(* publishes one message with QoS 1 or 2, and disconnects, MaxRounds times,  *)
(* against a broker that accepts every CONNECT.  The wait of Disconnect may  *)
(* end before the broker's answers are handled.                             *)
(***************************************************************************)
round(clean, qos, withMsg) ==
    <<ConnectCall(clean, FALSE, FALSE), PublishCall(qos), DisconnectCall(withMsg)>>

RECURSIVE rounds(_)
rounds(n) ==
    IF n = 0 THEN {<<>>}
    ELSE {r \o round(clean, qos, TRUE) :
             r \in rounds(n - 1), clean \in BOOLEAN, qos \in 1..2}

InitReconnect ==
    InitSession /\ caller \in {ScriptedCaller("rounds", 1, s) : s \in rounds(MaxRounds)}

NextReconnect ==
    \/ \E o \in ConnectOptionSets : ConnectBegin(o[1], o[2], o[3])
    \/ \E k \in 1..Len(workers) : WorkerWrite(k, {<<ConnAckAccepted>>})
    \/ \E k \in 1..Len(workers) : WorkerRead(k)
    \/ ConnectAccepted
    \/ ResendStep
    \/ ResendDone
    \/ \E withMsg \in BOOLEAN : DisconnectBegin(withMsg)
    \/ \E d \in 1..Len(disp) : DispatcherStopAfter(d)
    \/ \E d \in 1..Len(disp) : DispatcherTimeout(d, TRUE)
    \/ \E d \in 1..Len(disp) : DispatcherStopped(d)
    \/ DisconnectEnqueue
    \/ DisconnectClose
    \/ WriterWrite
    \/ WriterDrained
    \/ \E d \in 1..Len(disp) : ReaderRead(d)
    \/ \E d \in 1..Len(disp) : DispatcherRelease(d)
    \/ \E d \in 1..Len(disp) : DispatcherUnset(d)
    \/ \E d \in 1..Len(disp) : DispatcherReplace(d)
    \/ \E d \in 1..Len(disp) : DispatcherSendRelease(d)
    \/ \E qos \in 0..2 : PublishBegin(qos)
    \/ PublishNextPacketID
    \/ PublishRegisterWaiting
    \/ PublishSend

SpecReconnect == InitReconnect /\ [][NextReconnect]_vars

(***************************************************************************)
(* Properties of the Session.                                               *)
(***************************************************************************)
\* C1: the Session state changes only from INITIAL or DISCONNECTED to CONNECTED,
\* when a Connect succeeds, and from CONNECTED to DISCONNECTED, when a Disconnect
\* or DisconnectWithoutMessage completes; no other change of state ever occurs.
C1_StateTransitions ==
    [][state' # state =>
          \/ /\ state \in {INITIAL, DISCONNECTED} /\ state' = CONNECTED
             /\ ctl.pc = "connectWait" /\ workers[Len(workers)].result = "nil"
          \/ /\ state = CONNECTED /\ state' = DISCONNECTED
             /\ ctl.pc = "drained" /\ ctl'.pc = "idle"]_vars

\* A Session connected for the second time: it went INITIAL, CONNECTED,
\* DISCONNECTED, CONNECTED.
C1_Reconnected == state = CONNECTED /\ Len(disp) = 2

\* The four bytes 0x20, 0x02, any, 0x00.
AcceptingResponse(r) == Len(r) = 4 /\ r[1] = 32 /\ r[2] = 2 /\ r[4] = 0

\* The select of Connect takes a value in this step.
ConnectSelects == ctl.pc = "connectWait" /\ ctl'.pc # "connectWait"

\* A Connect that does not succeed returns an error, leaves the state as it was and
\* starts no reader, dispatcher or writer.
ConnectFailsCleanly ==
    state' # CONNECTED =>
        /\ ctl'.pc = "idle"
        /\ ctlRet'.op = "Connect" /\ ctlRet'.err \in ConnectErrors \cup {"TIMEOUT"}
        /\ state' = state /\ disp' = disp /\ writerAlive' = writerAlive
        /\ toBroker' = toBroker

\* C2 as stated: Connect succeeds and moves to CONNECTED if and only if the four
\* bytes read from the transport are 0x20, 0x02, any, 0x00; otherwise it returns an
\* error, the state stays and no task is started.
C2_SucceedsIffAccepted ==
    [][ConnectSelects =>
          /\ state' = CONNECTED <=> AcceptingResponse(workers[Len(workers)].response)
          /\ ConnectFailsCleanly]_vars

\* C2 amended: Connect succeeds and moves to CONNECTED if and only if its select
\* does not take the timer and the four bytes read from the transport are 0x20,
\* 0x02, any, 0x00; otherwise it returns an error, the state stays and no task is
\* started.
C2_SucceedsIffAcceptedInTime ==
    [][ConnectSelects =>
          /\ state' = CONNECTED <=>
                /\ ~(ctl'.pc = "idle" /\ ctlRet'.err = "TIMEOUT")
                /\ AcceptingResponse(workers[Len(workers)].response)
          /\ ConnectFailsCleanly]_vars

\* A Connect refused with return code 5 has returned: the state is still INITIAL
\* and nothing was started.
C2_Refused ==
    /\ ctlRet = [op |-> "Connect", err |-> "Refused"]
    /\ state = INITIAL /\ disp = <<>> /\ ~writerAlive
    /\ \E i \in 1..Len(wire) : wire[i].by = "worker"

\* C3: every PUBLISH that a Connect with clean_session=false retransmits is
\* written with the DUP bit (bit 3 of the first byte) set.
C3_ResendSetsDup ==
    \A i \in 1..Len(wire) :
        wire[i].by = "resend" /\ wire[i].bytes[1] \div 16 = PublishType
            => HasBit(wire[i].bytes[1], DupBit)

\* The packets task `by` wrote to a transport during connection `epoch`, in order.
Written(by, epoch) ==
    LET w == SelectSeq(wire, LAMBDA e : e.by = by /\ e.epoch = epoch)
    IN  [i \in 1..Len(w) |-> w[i].bytes]

\* qos2ResendPublish has completed pass p: the p-th Disconnect has returned.
PassDone(p) ==
    /\ caller.name = "qos2ResendPublish"
    /\ state = DISCONNECTED /\ ctl.pc = "idle" /\ Len(disp) = p

\* C4: the three passes of qos2ResendPublish on one Session: after pass 1 the
\* waiting list holds the original PUBLISH of every row; in pass 2 each PUBLISH is
\* retransmitted and after it the list holds a PUBREL in its place; in pass 3 each
\* PUBREL is retransmitted and after it the list is empty and every bit is clear.
C4_ThreePassResume ==
    LET n == caller.rows IN
    /\ PassDone(1) =>
          /\ WaitingEntries(inFlight) = [i \in 1..n |-> <<i, PublishMessage(2, i)>>]
          /\ inFlight.bits = 1..n
    /\ PassDone(2) =>
          /\ Len(Written("resend", 2)) = n
          /\ \A i \in 1..n :
                /\ Written("resend", 2)[i][1] \div 16 = PublishType
                /\ WirePacketID(Written("resend", 2)[i]) = i
          /\ WaitingEntries(inFlight) = [i \in 1..n |-> <<i, ReleaseMessage(i)>>]
          /\ inFlight.bits = 1..n
    /\ PassDone(3) =>
          /\ Written("resend", 3) = [i \in 1..n |-> WriteTo(ReleaseMessage(i))]
          /\ WaitingEntries(inFlight) = <<>>
          /\ inFlight.bits = {}

\* qos2ResendPublish has run to its end with two rows and the tracker is empty.
C4_ThirdPassDone ==
    /\ PassDone(3) /\ caller.rows = 2 /\ caller.script = <<>>
    /\ Len(Written("resend", 2)) = 2 /\ Len(Written("resend", 3)) = 2
    /\ inFlight.bits = {}

\* The handler d takes a message of the given type for an identifier of the
\* waiting list in this step.
Takes(d, type) ==
    /\ disp[d].pc = "select" /\ disp[d].messages # <<>>
    /\ disp'[d].messages = Tail(disp[d].messages)
    /\ ShiftRight(Head(disp[d].messages).fixedHeader, 4) = type
    /\ \E i \in 1..Len(WaitingIDs(inFlight)) :
          WaitingIDs(inFlight)[i] = BodyPacketID(Head(disp[d].messages).body)

\* The waiting list after the step is the list before it without the one entry
\* of the identifier.
RemovesExactly(packetID) ==
    /\ WaitingEntries(inFlight') =
          SelectSeq(WaitingEntries(inFlight), LAMBDA e : e[1] # packetID)
    /\ Len(WaitingEntries(inFlight')) = Len(WaitingEntries(inFlight)) - 1

\* The handler d clears the bit of the message it has released in this step.
Unsets(d) == disp[d].pc = "unset" /\ disp'[d].pc = "select"

\* C5: a PUBACK for an identifier of the waiting list, taken while XIgnorePubAck
\* is false, removes exactly that identifier's entry from the list, and the
\* handler then clears the identifier's bit; when the tracker of the first
\* connection has registered one message only, the list is then empty and no bit
\* is set.
C5_PubAckReleases ==
    [][\A d \in 1..Len(disp) :
          /\ Takes(d, PublishAckType) /\ ~XIgnorePubAck =>
                /\ RemovesExactly(BodyPacketID(Head(disp[d].messages).body))
                /\ disp'[d].pc = "unset" /\ panicked' = "no"
          /\ Unsets(d) =>
                /\ ~getBit(inFlight', disp[d].cur)
                /\ inFlight'.bits = inFlight.bits \ {disp[d].cur}
                /\ WaitingEntries(inFlight') = WaitingEntries(inFlight)
                /\ (Len(disp) = 1 /\ Len(inFlight.nodes) = 1 /\ pub.pc = "idle" =>
                      /\ disp[d].cur = 1
                      /\ WaitingEntries(inFlight') = <<>> /\ inFlight'.bits = {})]_vars

\* The waiting list after the step is the list before it with the message of
\* the identifier's entry replaced by msg.
ReplacesInPlace(packetID, msg) ==
    WaitingEntries(inFlight') =
        [i \in 1..Len(WaitingEntries(inFlight)) |->
            IF WaitingEntries(inFlight)[i][1] = packetID THEN <<packetID, msg>>
            ELSE WaitingEntries(inFlight)[i]]

\* The handler d, having replaced the entry, makes its send of the PUBREL in this step.
SendsRelease(d) ==
    disp[d].pc = "release" /\ (disp'[d].pc # "release" \/ panicked' # panicked)

\* C6: a PUBREC for an identifier of the waiting list, taken while XIgnorePubAck
\* is false, replaces the message of that entry by a PUBREL for the identifier,
\* the entry keeps its place and the bit stays set, and the PUBREL is enqueued on
\* toBroker; a PUBCOMP, taken while XIgnorePubComp is false, removes the entry
\* and the handler then clears the bit; an identifier whose entry holds a PUBREL
\* has its bit set.
C6_QoS2Lifecycle ==
    [][/\ \A d \in 1..Len(disp) :
             /\ Takes(d, PublishReceivedType) /\ ~XIgnorePubAck =>
                   /\ ReplacesInPlace(BodyPacketID(Head(disp[d].messages).body),
                                      ReleaseMessage(BodyPacketID(Head(disp[d].messages).body)))
                   /\ inFlight'.bits = inFlight.bits
                   /\ getBit(inFlight', BodyPacketID(Head(disp[d].messages).body))
                   /\ disp'[d].pc = "release" /\ panicked' = "no"
             /\ SendsRelease(d) =>
                   /\ toBroker'.q = Append(toBroker.q, ReleaseMessage(disp[d].cur))
                   /\ inFlight' = inFlight
                   /\ panicked' = "no"
             /\ Takes(d, PublishCompleteType) /\ ~XIgnorePubComp =>
                   /\ RemovesExactly(BodyPacketID(Head(disp[d].messages).body))
                   /\ inFlight'.bits = inFlight.bits
                   /\ disp'[d].pc = "unset" /\ panicked' = "no"
       /\ \A i \in 1..Len(WaitingEntries(inFlight')) :
             WaitingEntries(inFlight')[i][2] = ReleaseMessage(WaitingEntries(inFlight')[i][1])
                => getBit(inFlight', WaitingEntries(inFlight')[i][1])]_vars

\* Disconnect or DisconnectWithoutMessage, called in CONNECTED, returns in this step.
DisconnectReturns == ctl.pc = "drained" /\ ctl'.pc = "idle"

\* C7: when a Disconnect called in CONNECTED returns, the writer has written every
\* message sent on toBroker, in the order sent: the messages sent before the call
\* and, after them, one DISCONNECT, the bytes 0xE0 0x00; and the state is
\* DISCONNECTED.  When the Session's only calls were a Connect and this
\* Disconnect, the transport was given exactly the CONNECT packet and 0xE0 0x00.
C7_DisconnectFlushes ==
    [][DisconnectReturns /\ ctl.withMsg =>
          LET log == toBroker.log
              written == Written("writer", Len(disp))
              sent == {p \in 1..Len(log) : log[p] = NewDisconnectMessage}
          IN  /\ state' = DISCONNECTED
              /\ written = [i \in 1..Len(log) |-> WriteTo(log[i])]
              /\ Cardinality(sent) = 1
              /\ \A p \in sent : p > ctl.mark /\ written[p] = <<224, 0>>
              /\ (~caller.scripted /\ caller.left = MaxCalls - 2 =>
                    /\ Len(wire) = 2
                    /\ wire[1].by = "worker"
                    /\ wire[1].bytes[1] = ConnectType * 16
                    /\ wire[1].bytes \in {WriteTo(ConnectMessage(clean)) : clean \in BOOLEAN}
                    /\ wire[2].bytes = <<224, 0>>)]_vars

\* A Disconnect called after a Publish has returned: the PUBLISH and then the
\* DISCONNECT were written.
C7_Flushed ==
    /\ ctlRet = [op |-> "Disconnect", err |-> "nil"] /\ state = DISCONNECTED
    /\ Len(disp) = 1 /\ ctl.pc = "idle"
    /\ Len(Written("writer", 1)) = 2
    /\ Written("writer", 1)[1][1] \div 16 = PublishType
    /\ Written("writer", 1)[2] = <<224, 0>>

\* The bytes are the packet of the message, the DUP bit apart.
IsPacketOf(bytes, m) ==
    bytes \in {WriteTo(m), WriteTo(GenericMessage(OrBit(m.fixedHeader, DupBit), m.body))}

\* C8: when a Connect with CleanSession(false) returns nil, the packets it has
\* retransmitted on this connection are the messages of the waiting list, each
\* once, in the order of the list, which is the order of registration; when a
\* Connect with CleanSession(true) returns nil it has retransmitted nothing.
C8_ResumeOrder ==
    [][/\ ctl.pc = "resend" /\ ctl'.pc = "idle" =>
             LET resent == Written("resend", Len(disp))
                 nodes == WaitingNodes(inFlight)
             IN  /\ ctlRet' = [op |-> "Connect", err |-> "nil"]
                 /\ Len(resent) = Len(nodes)
                 /\ \A i \in 1..Len(nodes) :
                       /\ IsPacketOf(resent[i], inFlight.nodes[nodes[i]].msg)
                       /\ WirePacketID(resent[i]) = inFlight.nodes[nodes[i]].packetID
                 /\ \A i, j \in 1..Len(nodes) : i < j => nodes[i] < nodes[j]
       /\ ctl.pc = "connectWait" /\ ctl'.pc = "idle" /\ state' = CONNECTED =>
             /\ ctl.clean
             /\ wire' = wire
             /\ Written("resend", Len(disp')) = <<>>
       /\ \A i \in 1..Len(wire') :
             wire'[i].by = "resend" /\ i > Len(wire) => ~ctl.clean /\ ctl.pc = "resend"]_vars

\* The second Connect of qos1ResendPublish has returned, having retransmitted
\* the two PUBLISH packets of the first pass.
C8_Resumed ==
    /\ caller.name = "qos1ResendPublish" /\ caller.rows = 2
    /\ Len(disp) = 2 /\ state = CONNECTED /\ ctl.pc = "idle"
    /\ ctlRet = [op |-> "Connect", err |-> "nil"]
    /\ Len(Written("resend", 2)) = 2
    /\ WirePacketID(Written("resend", 2)[1]) = 1
    /\ WirePacketID(Written("resend", 2)[2]) = 2

\* C9: a Publish called while the state is not CONNECTED returns the error: it
\* allocates no packet identifier, registers nothing in the tracker and sends
\* nothing on toBroker; while the state is not CONNECTED no Publish is under way.
C9_PublishNotConnected ==
    [][state # CONNECTED =>
          /\ pub.pc = "idle" /\ pub' = pub
          /\ pubRet' # pubRet =>
                /\ pubRet' = "BadState"
                /\ inFlight' = inFlight /\ toBroker' = toBroker /\ wire' = wire]_vars

\* A Publish on a Session that was disconnected has returned the error.
C9_Refused ==
    /\ pubRet = "BadState" /\ state = DISCONNECTED /\ pub.pc = "idle"
    /\ inFlight.bits = {} /\ inFlight.front = 0

\* C10: a Connect called while the state is CONNECTED returns the error: no
\* handshake is started, nothing is written to the transport, and the state, the
\* tracker and the XIgnorePubAck / XIgnorePubComp flags stay as they are.
C10_ConnectWhileConnected ==
    [][state = CONNECTED /\ ctl.pc = "idle" =>
          /\ ctl'.pc # "connectWait" /\ Len(workers') = Len(workers)
          /\ ctlRet'.op = "Connect" /\ ctlRet' # ctlRet =>
                /\ ctlRet'.err = "BadState"
                /\ wire' = wire /\ state' = state /\ inFlight' = inFlight
                /\ XIgnorePubAck' = XIgnorePubAck /\ XIgnorePubComp' = XIgnorePubComp]_vars

\* A Connect on a connected Session has returned the error.
C10_Refused ==
    /\ ctlRet = [op |-> "Connect", err |-> "BadState"]
    /\ state = CONNECTED /\ ctl.pc = "idle" /\ Len(disp) = 1 /\ Len(workers) = 1

\* C11: Disconnect and DisconnectWithoutMessage called in INITIAL return nil, and
\* called in DISCONNECTED return the error; either way the state stays, nothing
\* is sent on stopAfter or toBroker, toBroker is not closed and nothing is written.
C11_DisconnectNotConnected ==
    [][state # CONNECTED /\ ctl.pc = "idle" =>
          /\ ctl'.pc \notin {"stopAfter", "stopped", "enqueue", "close", "drained"}
          /\ ctlRet' # ctlRet /\ ctlRet'.op \in {"Disconnect", "DisconnectWithoutMessage"} =>
                /\ state = INITIAL => ctlRet'.err = "nil"
                /\ state = DISCONNECTED => ctlRet'.err = "BadState"
                /\ state' = state /\ ctl' = ctl
                /\ toBroker' = toBroker /\ wire' = wire /\ disp' = disp
                /\ writerAlive' = writerAlive /\ inFlight' = inFlight]_vars

\* A Disconnect on a disconnected Session has returned the error.
C11_Refused ==
    /\ ctlRet = [op |-> "Disconnect", err |-> "BadState"]
    /\ state = DISCONNECTED /\ ctl.pc = "idle" /\ toBroker.closed

\* The broker has sent nothing on the CONNECT of the Connect in progress and
\* nothing will come: its handler waits for the CONNACK on an open transport, no
\* handler of an earlier Connect has its CONNECT still to write, and nothing of
\* an earlier connection waits to be read or dispatched.
BrokerSilent ==
    /\ panicked = "no"
    /\ ctl.pc = "connectWait" /\ HandshakeWaits
    /\ \A k \in 1..Len(workers) : workers[k].pc # "write"
    /\ \A c \in Conns : inbound[c] = <<>>
    /\ \A d \in 1..Len(disp) : disp[d].messages = <<>>

\* C12: when the broker sends nothing after CONNECT, Connect eventually returns
\* ErrTIMEOUT and the state is not CONNECTED: it is what it was.
C12_SilentBrokerTimesOut ==
    /\ BrokerSilent ~>
          /\ ctl.pc = "idle" /\ ctlRet = [op |-> "Connect", err |-> "TIMEOUT"]
          /\ state # CONNECTED
    /\ [][BrokerSilent /\ ctl'.pc # "connectWait" =>
             /\ ctlRet' = [op |-> "Connect", err |-> "TIMEOUT"]
             /\ state' = state /\ state # CONNECTED]_vars

\* A Connect on a silent broker has timed out on a Session that was connected
\* before: the state is still DISCONNECTED.
C12_TimedOut ==
    /\ ctlRet = [op |-> "Connect", err |-> "TIMEOUT"] /\ ctl.pc = "idle"
    /\ state = DISCONNECTED
    /\ workers[Len(workers)].pc = "read" /\ inbound[workers[Len(workers)].conn] = <<>>
    /\ workers[Len(workers)].conn \notin closedConns

\* C13: a Disconnect or DisconnectWithoutMessage called in CONNECTED eventually
\* returns with the state DISCONNECTED, whatever waits in the waiting list.
C13_DisconnectReturns ==
    ctl.pc = "stopAfter" ~> (ctl.pc = "idle" /\ state = DISCONNECTED)

\* The handler d takes a message of the given type from its channel in this step.
TakesAny(d, type) ==
    /\ disp[d].pc = "select" /\ disp[d].messages # <<>>
    /\ disp'[d].messages = Tail(disp[d].messages)
    /\ ShiftRight(Head(disp[d].messages).fixedHeader, 4) = type

\* C14: a PUBACK or PUBREC taken while XIgnorePubAck is true, and a PUBCOMP taken
\* while XIgnorePubComp is true, leaves the tracker as it is (bits, waiting list,
\* stored messages, cursor), sends nothing on toBroker, and the handler is back at
\* its select.
C14_IgnoredAcks ==
    [][\A d \in 1..Len(disp) :
          \/ (TakesAny(d, PublishAckType) \/ TakesAny(d, PublishReceivedType)) /\ XIgnorePubAck
          \/ TakesAny(d, PublishCompleteType) /\ XIgnorePubComp
          => /\ inFlight' = inFlight
             /\ toBroker' = toBroker /\ wire' = wire
             /\ disp'[d].pc = "select" /\ panicked' = "no"]_vars

\* A PUBREC for the one waiting PUBLISH was dropped under XIgnorePubAck: the
\* PUBLISH was written and answered, nothing waits to be read or dispatched, and
\* the entry still holds the PUBLISH.
C14_Dropped ==
    /\ XIgnorePubAck /\ state = CONNECTED /\ Len(disp) = 1
    /\ WaitingEntries(inFlight) = <<<<1, PublishMessage(2, 1)>>>>
    /\ getBit(inFlight, 1)
    /\ \E i \in 1..Len(wire) : wire[i].by = "writer" /\ wire[i].ok
                                 /\ wire[i].bytes = WriteTo(PublishMessage(2, 1))
    /\ inbound[conn] = <<>> /\ disp[1].messages = <<>> /\ disp[1].pc = "select"
    /\ toBroker.log = <<PublishMessage(2, 1)>>

\* C15: a DisconnectWithoutMessage called in CONNECTED goes through the steps of
\* Disconnect but the sending of the DISCONNECT (stop_after, stopped, close,
\* drained); when it returns the state is DISCONNECTED, toBroker is closed and
\* everything sent on it was written, and the call has sent no DISCONNECT on
\* toBroker and none was written on this connection.
C15_WithoutMessage ==
    [][~ctl.withMsg =>
          /\ ctl'.pc # ctl.pc /\ ctl.pc # "idle" /\ ctl.pc \notin {"connectWait", "resend"} =>
                <<ctl.pc, ctl'.pc>> \in {<<"stopAfter", "stopped">>, <<"stopped", "close">>,
                                         <<"close", "drained">>, <<"drained", "idle">>}
          /\ ctl.pc = "close" /\ ctl'.pc = "drained" =>
                toBroker'.closed /\ toBroker'.log = toBroker.log
          /\ DisconnectReturns =>
                LET log == toBroker.log
                    written == Written("writer", Len(disp))
                IN  /\ state' = DISCONNECTED
                    /\ ctlRet' = [op |-> "DisconnectWithoutMessage", err |-> "nil"]
                    /\ toBroker.closed
                    /\ written = [i \in 1..Len(log) |-> WriteTo(log[i])]
                    /\ \A p \in 1..Len(log) : log[p] # NewDisconnectMessage
                    /\ \A p \in 1..Len(written) : written[p] # <<224, 0>>]_vars

\* A DisconnectWithoutMessage called after a Publish has returned: the PUBLISH
\* is the one packet the writer has written.
C15_Closed ==
    /\ ctlRet = [op |-> "DisconnectWithoutMessage", err |-> "nil"] /\ state = DISCONNECTED
    /\ Len(disp) = 1 /\ ctl.pc = "idle" /\ toBroker.closed /\ ~writerAlive
    /\ Len(Written("writer", 1)) = 1
    /\ Written("writer", 1)[1][1] \div 16 = PublishType

\* What a tracker holds: the waiting list in its order, the bits, the cursor.
TrackerView(f) == <<WaitingEntries(f), f.bits, f.nextValue>>

\* Connect passes its state check in this step.
ConnectStarts == ctl.pc = "idle" /\ ctl'.pc = "connectWait"

\* Connect returns nil in this step.
ConnectSucceeds ==
    /\ ctl.pc \in {"connectWait", "resend"} /\ ctl'.pc = "idle"
    /\ ctlRet' = [op |-> "Connect", err |-> "nil"]

\* C16: a Connect with CleanSession(true), or on a Session without a tracker,
\* installs a fresh tracker (empty waiting list, no bit set, cursor 0, next
\* identifier 1); when a Connect with CleanSession(false) returns nil on a Session
\* whose earlier connection was ended by a Disconnect, the waiting list, the bits
\* and the cursor are what they were when that Disconnect returned.
C16_TrackerOnConnect ==
    [][/\ ConnectStarts /\ (ctl'.clean \/ inFlight.nil) =>
              /\ TrackerView(inFlight') = <<<<>>, {}, 0>>
              /\ ~inFlight'.nil
              /\ nextPacketID(inFlight').outcome = "ok" /\ nextPacketID(inFlight').id = 1
       /\ ConnectSucceeds /\ ~ctl.clean /\ ~ended.nil =>
              TrackerView(inFlight') = TrackerView(ended)]_vars

\* C17: on every connection the packets the writer has written are the messages
\* sent on toBroker so far but those still in the channel, each written whole, in
\* the order they were sent in.
C17_WriteOrder ==
    toBroker.made =>
        LET log == toBroker.log
            written == Written("writer", Len(disp))
        IN  /\ Len(written) + Len(toBroker.q) = Len(log)
            /\ \A i \in 1..Len(written) : written[i] = WriteTo(log[i])
            /\ \A i \in 1..Len(toBroker.q) : toBroker.q[i] = log[Len(written) + i]

\* Two PUBLISH packets and the DISCONNECT were sent on toBroker and written.
C17_ThreeWritten ==
    /\ Len(disp) = 1 /\ toBroker.q = <<>>
    /\ toBroker.log = <<PublishMessage(1, 1), PublishMessage(2, 2), NewDisconnectMessage>>
    /\ Written("writer", 1) = <<WriteTo(PublishMessage(1, 1)), WriteTo(PublishMessage(2, 2)),
                                <<224, 0>>>>

\* Publish sends its message on toBroker in this step.
PublishSends == pub.pc = "send" /\ pub'.pc = "idle" /\ toBroker'.log # toBroker.log

\* The writer writes a PUBLISH with QoS > 0 in this step.
WriterWritesPublish ==
    /\ writerAlive /\ toBroker.q # <<>> /\ toBroker'.q = Tail(toBroker.q)
    /\ Len(wire') = Len(wire) + 1
    /\ ShiftRight(Head(toBroker.q).fixedHeader, 4) = PublishType
    /\ Head(toBroker.q).fixedHeader % 8 \div 2 > 0

\* The waiting list holds the message under the identifier its packet carries.
Registered(f, msg) ==
    \E i \in 1..Len(WaitingEntries(f)) :
        WaitingEntries(f)[i] = <<WirePacketID(WriteTo(msg)), msg>>

\* C18: a Publish with QoS > 0 has its identifier allocated (not 0, bit set) and
\* its PUBLISH registered in the waiting list when it sends the message on
\* toBroker, and the entry is in the waiting list when the writer writes the
\* packet (no acknowledgement of the packet can have come before it is written).
C18_RegisteredBeforeSent ==
    [][/\ PublishSends /\ pub.qos > 0 =>
              /\ pub.id \in 1..MaxID /\ getBit(inFlight, pub.id)
              /\ toBroker'.log = Append(toBroker.log, PublishMessage(pub.qos, pub.id))
              /\ Registered(inFlight, PublishMessage(pub.qos, pub.id))
       /\ WriterWritesPublish => Registered(inFlight, Head(toBroker.q))]_vars

\* Connect retransmits the message of the node at its cursor in this step.
Resends ==
    /\ ctl.pc = "resend" /\ ctl.cursor # 0 /\ ctl'.cursor # ctl.cursor
    /\ Len(wire') = Len(wire) + 1

\* C19: a retransmission leaves the tracker as it is, so the entry holds the
\* fixed-header byte and the body it held before; the packet written carries
\* the stored body and differs from the stored fixed-header byte in the DUP bit
\* at most; a stored PUBREL is written as WriteTo writes it.
C19_WriteDupToKeepsMessage ==
    [][Resends =>
          LET msg == inFlight.nodes[ctl.cursor].msg
              bytes == wire'[Len(wire')].bytes
          IN  /\ inFlight' = inFlight
              /\ inFlight'.nodes[ctl.cursor].msg = msg
              /\ wire'[Len(wire')].by = "resend"
              /\ bytes \in {WriteTo(msg),
                            WriteTo(GenericMessage(OrBit(msg.fixedHeader, DupBit), msg.body))}
              /\ ShiftRight(msg.fixedHeader, 4) = PublishReleaseType => bytes = WriteTo(msg)]_vars

\* Connect has just retransmitted a stored PUBREL: the packet is the last one
\* written and the entry still holds the PUBREL.
C19_ReleaseResent ==
    /\ ctl.pc = "resend" /\ wire # <<>>
    /\ wire[Len(wire)].by = "resend"
    /\ wire[Len(wire)].bytes = <<PublishReleaseType * 16 + PublishReleaseReserved, 2, 0, 1>>
    /\ \E i \in 1..Len(WaitingEntries(inFlight)) :
          /\ WaitingEntries(inFlight)[i][1] = 1
          /\ WaitingEntries(inFlight)[i][2].fixedHeader
                = PublishReleaseType * 16 + PublishReleaseReserved
          /\ WriteTo(WaitingEntries(inFlight)[i][2]) = wire[Len(wire)].bytes

(***************************************************************************)
(* The tracker on its own, as in_flight_test.go uses it: newInFlight, then  *)
(* setBit, unsetBit, clearAllBits and nextPacketID in any order.  pub.id    *)
(* holds what the last nextPacketID returned.                               *)
(***************************************************************************)
InitTracker ==
    /\ state = INITIAL
    /\ inFlight = newInFlight
    /\ XIgnorePubAck = FALSE
    /\ XIgnorePubComp = FALSE
    /\ conn = 1
    /\ toBroker = [made |-> FALSE, q |-> <<>>, closed |-> FALSE, log |-> <<>>]
    /\ writerAlive = FALSE
    /\ ctl = IdleCtl
    /\ ctlRet = NoRet
    /\ pub = IdlePub
    /\ pubRet = "none"
    /\ caller = FreeCaller
    /\ workers = <<>>
    /\ disp = <<>>
    /\ inbound = [c \in Conns |-> <<>>]
    /\ wire = <<>>
    /\ closedConns = {}
    /\ panicked = "no"
    /\ ended = NilInFlight
    /\ codec = NoCodec
    /\ registered = <<>>

\* next := inF.nextPacketID()
TrackerNextPacketID ==
    /\ panicked = "no"
    /\ LET r == nextPacketID(inFlight) IN
       IF r.outcome = "ok"
       THEN /\ inFlight' = r.f
            /\ pub' = [pub EXCEPT !.id = r.id]
            /\ UNCHANGED panicked
       ELSE /\ panicked' = (IF r.outcome = "panic" THEN "No free packet IDs"
                            ELSE "nextPacketID does not return")
            /\ UNCHANGED <<inFlight, pub>>
    /\ UNCHANGED <<state, XIgnorePubAck, XIgnorePubComp, conn, toBroker, writerAlive,
                   callerVars, pubRet, caller, workers, disp, netVars, closedConns>>

\* inF.setBit(n)
TrackerSetBit(n) ==
    /\ panicked = "no"
    /\ ~getBit(inFlight, n)
    /\ inFlight' = setBit(inFlight, n)
    /\ UNCHANGED <<state, XIgnorePubAck, XIgnorePubComp, conn, toBroker, writerAlive,
                   callerVars, pubVars, workers, disp, netVars, closedConns, panicked>>

\* inF.unsetBit(n)
TrackerUnsetBit(n) ==
    /\ panicked = "no"
    /\ getBit(inFlight, n)
    /\ inFlight' = unsetBit(inFlight, n)
    /\ UNCHANGED <<state, XIgnorePubAck, XIgnorePubComp, conn, toBroker, writerAlive,
                   callerVars, pubVars, workers, disp, netVars, closedConns, panicked>>

\* inF.clearAllBits()
TrackerClearAllBits ==
    /\ panicked = "no"
    /\ inFlight.bits # {}
    /\ inFlight' = clearAllBits(inFlight)
    /\ UNCHANGED <<state, XIgnorePubAck, XIgnorePubComp, conn, toBroker, writerAlive,
                   callerVars, pubVars, workers, disp, netVars, closedConns, panicked>>

NextTracker ==
    \/ TrackerNextPacketID
    \/ \E n \in 1..MaxID : TrackerSetBit(n)
    \/ \E n \in 1..MaxID : TrackerUnsetBit(n)
    \/ TrackerClearAllBits

SpecTracker == InitTracker /\ [][NextTracker]_vars

\* The identifier k steps after x: x+1, x+2, ..., and after the last one 1.
StepsAfter(x, k) == ((x + k - 1) % MaxID) + 1

\* The first identifier with a clear bit among those that come after the
\* cursor, before the cursor comes round again; 0 when there is none.
FirstClear(f) ==
    LET last == IF f.nextValue = 0 THEN MaxID ELSE MaxID - 1
        ks == {k \in 1..last : ~getBit(f, StepsAfter(f.nextValue, k))}
    IN  IF ks = {} THEN 0
        ELSE StepsAfter(f.nextValue, CHOOSE k \in ks : \A j \in ks : k <= j)

\* nextPacketID returns in this step (it is the one operation that moves the
\* cursor of a tracker).
Allocates ==
    /\ ~inFlight.nil /\ ~inFlight'.nil /\ ctl' = ctl
    /\ inFlight'.nextValue # inFlight.nextValue

\* C20: the identifier nextPacketID returns is the first one with a clear bit
\* after the cursor, going up by one and from the last identifier back to 1; it
\* is never 0; its bit is set and the cursor moved to it, and nothing else of
\* the tracker changes.  So a fresh tracker yields 1, 2, ... up to the last
\* identifier; a tracker cleared after that yields 1; bits {1,2,4,6,7} on a
\* fresh tracker yield 3, 5, 8; bits {1,2,4} on a fresh tracker yield 3.
C20_NextPacketID ==
    [][Allocates =>
          LET id == inFlight'.nextValue
              at(bits, cursor) == inFlight.bits = bits /\ inFlight.nextValue = cursor
          IN  /\ id = FirstClear(inFlight) /\ id \in 1..MaxID
              /\ pub'.id = id
              /\ inFlight' = [inFlight EXCEPT !.bits = @ \cup {id}, !.nextValue = id]
              /\ \A k \in 0..(MaxID - 1) : at(1..k, k) => id = k + 1
              /\ at({}, MaxID) => id = 1
              /\ at({1, 2, 4, 6, 7}, 0) => id = 3
              /\ at({1, 2, 3, 4, 6, 7}, 3) => id = 5
              /\ at({1, 2, 3, 4, 5, 6, 7}, 5) => id = 8
              /\ at({1, 2, 4}, 0) => id = 3]_vars

\* The third call of the test with bits {1,2,4,6,7} preset has returned 8.
C20_SkippedTo8 ==
    /\ pub.id = 8 /\ inFlight.nextValue = 8 /\ inFlight.bits = 1..8
    /\ inFlight.front = 0 /\ state = INITIAL

(***************************************************************************)
(* One thread that uses up the identifiers: a first connection with one     *)
(* QoS 1 Publish, then a clean second connection (PUBACKs ignored, as in    *)
(* the first pass of qos1ResendPublish) with one Publish more than there    *)
(* are identifiers.                                                         *)
(***************************************************************************)
wrapPublish ==
    <<ConnectCall(TRUE, FALSE, FALSE), PublishCall(1), DisconnectCall(TRUE),
      ConnectCall(TRUE, TRUE, FALSE)>>
      \o [i \in 1..(MaxID + 1) |-> PublishCall(1)]

InitWrap == InitSession /\ caller = ScriptedCaller("wrapPublish", MaxID + 1, wrapPublish)

NextWrap ==
    \/ \E o \in ConnectOptionSets : ConnectBegin(o[1], o[2], o[3])
    \/ \E k \in 1..Len(workers) : WorkerWrite(k, {<<ConnAckAccepted>>})
    \/ \E k \in 1..Len(workers) : WorkerRead(k)
    \/ ConnectAccepted
    \/ \E withMsg \in BOOLEAN : DisconnectBegin(withMsg)
    \/ \E d \in 1..Len(disp) : DispatcherStopAfter(d)
    \/ \E d \in 1..Len(disp) : DispatcherTimeout(d, TRUE)
    \/ \E d \in 1..Len(disp) : DispatcherStopped(d)
    \/ DisconnectEnqueue
    \/ DisconnectClose
    \/ WriterWrite
    \/ WriterDrained
    \/ \E d \in 1..Len(disp) : ReaderRead(d)
    \/ \E d \in 1..Len(disp) : DispatcherAckIgnored(d)
    \/ \E d \in 1..Len(disp) : DispatcherRelease(d)
    \/ \E d \in 1..Len(disp) : DispatcherUnset(d)
    \/ \E qos \in 0..2 : PublishBegin(qos)
    \/ PublishNextPacketID
    \/ PublishRegisterWaiting
    \/ PublishSend

SpecWrap == InitWrap /\ [][NextWrap]_vars

\* No two entries of the waiting list have the same identifier.
DistinctWaiting(f) ==
    LET w == WaitingEntries(f)
    IN  \A i, j \in 1..Len(w) : w[i][1] = w[j][1] => i = j

\* C21: the identifier nextPacketID returns is one of 1..MaxID and its bit was
\* clear when the call was made, and at no time do two messages of the waiting
\* list (the QoS > 0 publishes not yet acknowledged) have the same identifier.
C21_UniquePacketIDs ==
    [][/\ Allocates => /\ inFlight'.nextValue \in 1..MaxID
                       /\ ~getBit(inFlight, inFlight'.nextValue)
       /\ DistinctWaiting(inFlight')]_vars

\* A call of nextPacketID does not return an identifier in this step: it panics
\* or never comes back.
AllocationFails ==
    panicked = "no" /\ panicked' \in {"No free packet IDs", "nextPacketID does not return"}

\* C22: nextPacketID fails only when no identifier is free: called on a tracker
\* with a clear bit among 1..MaxID, be it only the bit of the identifier under
\* the cursor, it returns an identifier.
C22_FailsOnlyWhenExhausted ==
    [][AllocationFails => inFlight.bits = 1..MaxID]_vars

\* C23: called with every bit of 1..MaxID set, nextPacketID ends, with the
\* failure that says no identifier is free, and leaves the tracker as it was,
\* whatever the cursor, 0 included.
C23_ExhaustedTerminates ==
    [][inFlight.bits = 1..MaxID /\ panicked = "no" /\ panicked' # "no" =>
          /\ panicked' = "No free packet IDs"
          /\ inFlight' = inFlight]_vars

(***************************************************************************)
(* The encoding functions on their own: EncodeVariableInt followed by       *)
(* DecodeVariableInt on a value, and ConnectRequest.WriteTo on the options   *)
(* of a request (the path of mqtt.Connect in connect.go).                    *)
(***************************************************************************)
\* DecodeVariableInt: one turn of the loop per byte read; a Read at the end of
\* the input leaves the 0 of the fresh buffer.
RECURSIVE decodeLoop(_, _, _, _)
decodeLoop(bytes, at, multiplier, value) ==
    LET encodedByte == IF at <= Len(bytes) THEN bytes[at] ELSE 0
        value2 == value + (encodedByte % 128) * multiplier
        multiplier2 == multiplier * 128
    IN  IF multiplier2 > 128 * 128 * 128
        THEN [value |-> 0, err |-> "Malformed variable length"]
        ELSE IF encodedByte \div 128 = 0
        THEN [value |-> value2, err |-> "nil"]
        ELSE decodeLoop(bytes, at + 1, multiplier2, value2)

DecodeVariableInt(bytes) == decodeLoop(bytes, 1, 1, 0)

\* EncodeBytesTo: 16 bit length, then the content.
EncodeBytes(value) == <<Byte(ShiftRight(Len(value), 8)), Len(value) % 256>> \o value

\* ConnectOptions with Level 4, KeepAliveSeconds 10, WillQoS 0, WillRetain false.
\* Password is a pointer: hasPassword says it is not nil.
ConnectOptionsOf(clean, name, willTopic, willMessage, userName, hasPassword, password) ==
    [CleanSession |-> clean, ClientName |-> name, WillTopic |-> willTopic,
     WillMessage |-> willMessage, UserName |-> userName, hasPassword |-> hasPassword,
     Password |-> password]

\* ConnectRequest.remainingLength
remainingLength(o) ==
    LET name == IF o.ClientName # <<>> THEN Len(o.ClientName) + 2 ELSE 0
        will == IF o.WillTopic # <<>> THEN Len(o.WillTopic) + Len(o.WillMessage) + 4 ELSE 0
        user == IF o.UserName # <<>> THEN Len(o.UserName) + 2 ELSE 0
        pass == IF o.hasPassword THEN Len(o.Password) + 2 ELSE 0
    IN  name + will + user + pass

\* ConnectRequest.connectBits
connectBitsOf(o) ==
    (IF o.CleanSession THEN CleanSessionFlag ELSE 0)
      + (IF o.WillTopic # <<>> THEN WillFlag ELSE 0)
      + (IF o.UserName # <<>> THEN UserNameFlag ELSE 0)
      + (IF o.hasPassword THEN PasswordFlag ELSE 0)

\* ConnectRequest.WriteTo: the bytes handed to the writer.
ConnectRequestWriteTo(o) ==
    <<ConnectType * 16>>
      \o EncodeVariableInt(10 + remainingLength(o))
      \o <<0, 4, 77, 81, 84, 84, 4, connectBitsOf(o), 0, 10>>
      \o EncodeString(o.ClientName)
      \o (IF o.WillTopic # <<>>
          THEN EncodeString(o.WillTopic) \o EncodeBytes(o.WillMessage) ELSE <<>>)
      \o (IF o.UserName # <<>> THEN EncodeString(o.UserName) ELSE <<>>)
      \o (IF o.hasPassword THEN EncodeBytes(o.Password) ELSE <<>>)

\* The values encoded.
VarIntValues ==
    (0..MaxVarInt) \cup {128 * 128 - 1, 128 * 128, 128 * 128 * 128 - 1, 128 * 128 * 128,
                         128 * 128 * 128 * 128 - 1}

\* "MqttUnitTest"
MqttUnitTest == <<77, 113, 116, 116, 85, 110, 105, 116, 84, 101, 115, 116>>

\* The options written: client name empty or not, will topic, will message,
\* user name and password present or not.
\* A password of <<>> is the nil pointer, <<0>> the empty password (written as
\* its length only) and <<112, 119>> one of two bytes.
ConnectRequests ==
    {ConnectOptionsOf(clean, name, willTopic, willMessage, userName, password # <<>>,
                      IF password = <<0>> THEN <<>> ELSE password) :
        clean \in BOOLEAN, name \in {<<>>, ClientName, MqttUnitTest},
        willTopic \in {<<>>, <<119>>}, willMessage \in {<<>>, <<109, 109>>},
        userName \in {<<>>, <<117>>}, password \in {<<>>, <<0>>, <<112, 119>>}}

InitCodec ==
    /\ state = INITIAL
    /\ inFlight = NilInFlight
    /\ XIgnorePubAck = FALSE
    /\ XIgnorePubComp = FALSE
    /\ conn = 1
    /\ toBroker = [made |-> FALSE, q |-> <<>>, closed |-> FALSE, log |-> <<>>]
    /\ writerAlive = FALSE
    /\ ctl = IdleCtl
    /\ ctlRet = NoRet
    /\ pub = IdlePub
    /\ pubRet = "none"
    /\ caller = FreeCaller
    /\ workers = <<>>
    /\ disp = <<>>
    /\ inbound = [c \in Conns |-> <<>>]
    /\ wire = <<>>
    /\ closedConns = {}
    /\ panicked = "no"
    /\ ended = NilInFlight
    /\ registered = <<>>
    /\ codec \in {[pc |-> "value", value |-> v, bytes |-> <<>>,
                   decoded |-> [value |-> 0, err |-> "nil"]] : v \in VarIntValues}
                 \cup {[pc |-> "options", options |-> o, bytes |-> <<>>] :
                          o \in ConnectRequests}

\* bytes := EncodeVariableInt(value)
CodecEncodeVariableInt ==
    /\ codec.pc = "value"
    /\ codec' = [codec EXCEPT !.pc = "encoded", !.bytes = EncodeVariableInt(codec.value)]
    /\ UNCHANGED <<sessionVars, conn, toBroker, writerAlive, ctl, ctlRet, ended,
                   registered, pubVars, workers, disp, netVars, closedConns, panicked>>

\* value, err := DecodeVariableInt(bytes.NewReader(bytes))
CodecDecodeVariableInt ==
    /\ codec.pc = "encoded"
    /\ codec' = [codec EXCEPT !.pc = "decoded", !.decoded = DecodeVariableInt(codec.bytes)]
    /\ UNCHANGED <<sessionVars, conn, toBroker, writerAlive, ctl, ctlRet, ended,
                   registered, pubVars, workers, disp, netVars, closedConns, panicked>>

\* connectionRequest.WriteTo(conn)
CodecConnectRequestWriteTo ==
    /\ codec.pc = "options"
    /\ codec' = [codec EXCEPT !.pc = "written", !.bytes = ConnectRequestWriteTo(codec.options)]
    /\ UNCHANGED <<sessionVars, conn, toBroker, writerAlive, ctl, ctlRet, ended,
                   registered, pubVars, workers, disp, netVars, closedConns, panicked>>

NextCodec ==
    \/ CodecEncodeVariableInt
    \/ CodecDecodeVariableInt
    \/ CodecConnectRequestWriteTo

SpecCodec == InitCodec /\ [][NextCodec]_vars

\* C24: DecodeVariableInt of the bytes of EncodeVariableInt(v) returns v and no
\* error, for the values up to 268,435,455 (no fifth byte is needed for any of
\* them), and the encoding has 1 byte for v < 128, 2 for v < 16384, 3 for
\* v < 2097152 and 4 otherwise.
C24_VarIntRoundTrip ==
    codec.pc = "decoded" =>
        /\ codec.decoded = [value |-> codec.value, err |-> "nil"]
        /\ Len(codec.bytes) = (IF codec.value < 128 THEN 1
                               ELSE IF codec.value < 128 * 128 THEN 2
                               ELSE IF codec.value < 128 * 128 * 128 THEN 3 ELSE 4)

\* C25: the remaining length written in the CONNECT packet is the number of
\* bytes that follow it, which is 10 and the payload written: the client
\* identifier always, then the will, the user name and the password that are
\* present; with the client name "MqttUnitTest" and nothing else that is 24 of
\* 26 bytes.
C25_ConnectRemainingLength ==
    codec.pc = "written" =>
        LET o == codec.options
            field == DecodeVariableInt(Tail(codec.bytes)).value
            follow == Len(codec.bytes) - 1 - Len(EncodeVariableInt(field))
        IN  /\ field = follow
            /\ follow = 10 + (2 + Len(o.ClientName))
                           + (IF o.WillTopic # <<>>
                              THEN 4 + Len(o.WillTopic) + Len(o.WillMessage) ELSE 0)
                           + (IF o.UserName # <<>> THEN 2 + Len(o.UserName) ELSE 0)
                           + (IF o.hasPassword THEN 2 + Len(o.Password) ELSE 0)
            /\ (o.ClientName = MqttUnitTest /\ o.WillTopic = <<>> /\ o.UserName = <<>>
                  /\ ~o.hasPassword) => Len(codec.bytes) = 26 /\ field = 24

\* A step that sends on toBroker: the channel logs one more message, or the
\* sender finds the channel closed (the send panics).
SendsOnToBroker ==
    \/ toBroker'.log # toBroker.log /\ toBroker'.made = toBroker.made
                                   /\ Len(toBroker'.log) = Len(toBroker.log) + 1
    \/ panicked = "no" /\ panicked' = "send on closed channel"

\* C26: no message is sent on toBroker after the channel has been closed, by
\* Publish, by the handler of a PUBREC (which sends the PUBREL) or by
\* Disconnect.
C26_NoSendAfterClose == [][SendsOnToBroker => ~toBroker.closed]_vars

\* C27: a handler that has signalled stopped has exited together with its
\* reader: from then on it reads no packet from the transport and takes none
\* for an acknowledgement handler; a stop_after request is taken by the handler
\* of the current connection only; and a Session has at most one handler at a
\* time, also after a reconnect.
C27_DispatcherExits ==
    [][/\ \A d \in 1..Len(disp) :
             disp[d].stopped => /\ disp'[d].messages = disp[d].messages
                                /\ disp'[d].pc = disp[d].pc
                                /\ disp'[d].rpc \in {disp[d].rpc, "done"}
       /\ \A d \in 1..Len(disp) : disp'[d].timer /\ ~disp[d].timer => d = Len(disp)
       /\ Len(disp') <= 1]_vars

\* A step that writes to the transport, and one that reads a frame from it.
WritesTransport == Len(wire') = Len(wire) + 1
ReadsTransport == \E c \in Conns : inbound[c] # <<>> /\ inbound'[c] = Tail(inbound[c])

\* C28: while the writer goroutine exists every write to the transport is the
\* writer's; before that the only write is that of the CONNECT packet in the
\* handshake; and once the Session is connected only a reader reads from the
\* transport.
C28_OnlyWriterWrites ==
    [][/\ WritesTransport =>
             LET w == wire'[Len(wire')] IN
             IF writerAlive THEN w.by = "writer"
             ELSE w.by = "worker" /\ ShiftRight(w.bytes[1], 4) = ConnectType
       /\ ReadsTransport /\ state = CONNECTED => workers' = workers]_vars

\* C29: every identifier that has an entry in the waiting list has its bit set.
C29_WaitingHasBit ==
    ~inFlight.nil =>
        \A i \in 1..Len(WaitingEntries(inFlight)) : getBit(inFlight, WaitingEntries(inFlight)[i][1])

\* The handler d returns from releaseWaiting in this step.
Releases(d) == disp[d].pc = "select" /\ disp'[d].pc = "unset"

\* C30: after releaseWaiting(id) on a registered identifier, id is neither in
\* the waiting list nor in the waiting index, and its bit is still set.
C30_ReleaseWaiting ==
    [][\A d \in 1..Len(disp) :
          Releases(d) =>
              /\ \A i \in 1..Len(WaitingIDs(inFlight')) : WaitingIDs(inFlight')[i] # disp'[d].cur
              /\ inFlight'.waitingIdx[disp'[d].cur] = 0
              /\ getBit(inFlight', disp'[d].cur)]_vars

\* The writer goroutine sends on s.drained in this step (and ends).
SignalsDrained == writerAlive /\ ~writerAlive'

\* C31: the writer signals drained only when toBroker has been closed and every
\* message that was sent on it has been written to the transport, and a
\* Disconnect or DisconnectWithoutMessage in progress leaves the state CONNECTED
\* until that signal.
C31_DrainedAfterWritten ==
    [][/\ SignalsDrained =>
             /\ toBroker.closed
             /\ Written("writer", Len(disp)) =
                   [i \in 1..Len(toBroker.log) |-> WriteTo(toBroker.log[i])]
       /\ ctl.pc \in {"stopAfter", "stopped", "enqueue", "close", "drained"} =>
             /\ state = CONNECTED
             /\ state' # state => SignalsDrained /\ state' = DISCONNECTED]_vars

\* A Disconnect has returned after the writer wrote a PUBLISH and the DISCONNECT.
C31_DrainedTwo ==
    /\ state = DISCONNECTED /\ ~writerAlive /\ toBroker.closed
    /\ ctlRet = [op |-> "Disconnect", err |-> "nil"]
    /\ toBroker.log = <<PublishMessage(1, 1), NewDisconnectMessage>>
    /\ Written("writer", Len(disp)) = <<WriteTo(PublishMessage(1, 1)), <<224, 0>>>>

(***************************************************************************)
(* The waiting list of a tracker on its own, as in_flight_test.go uses it:  *)
(* registerWaiting, releaseWaiting and unsetBit on a newInFlight().          *)
(***************************************************************************)
\* GenericMessage{fixedHeader: 0, body: []byte{6 + n}}
TestData(n) == GenericMessage(0, <<6 + n>>)

\* The entries without the first one of the identifier.
RECURSIVE WithoutFirst(_, _)
WithoutFirst(seq, id) ==
    IF seq = <<>> THEN <<>>
    ELSE IF Head(seq)[1] = id THEN Tail(seq)
    ELSE <<Head(seq)>> \o WithoutFirst(Tail(seq), id)

\* inF.registerWaiting(n, &data), n an identifier no registered message has.
TrackerRegisterWaiting(n) ==
    /\ panicked = "no"
    /\ Len(inFlight.nodes) < MaxRegistered
    /\ \A i \in 1..Len(registered) : registered[i][1] # n
    /\ inFlight' = registerWaiting(inFlight, n, TestData(n))
    /\ registered' = Append(registered, <<n, TestData(n)>>)
    /\ UNCHANGED <<state, XIgnorePubAck, XIgnorePubComp, conn, toBroker, writerAlive,
                   ctl, ctlRet, ended, codec, pubVars, workers, disp, netVars,
                   closedConns, panicked>>

\* inF.releaseWaiting(n)
TrackerReleaseWaiting(n) ==
    /\ panicked = "no"
    /\ LET r == releaseWaiting(inFlight, n) IN
       IF r.outcome = "panic"
       THEN /\ panicked' = "releaseWaiting"
            /\ UNCHANGED <<inFlight, registered>>
       ELSE /\ inFlight' = r.f
            /\ registered' = WithoutFirst(registered, n)
            /\ UNCHANGED panicked
    /\ UNCHANGED <<state, XIgnorePubAck, XIgnorePubComp, conn, toBroker, writerAlive,
                   ctl, ctlRet, ended, codec, pubVars, workers, disp, netVars,
                   closedConns>>

NextWaiting ==
    \/ \E n \in 1..MaxRegistered : TrackerRegisterWaiting(n)
    \/ \E n \in 1..MaxRegistered : TrackerReleaseWaiting(n)
    \/ \E n \in 1..MaxRegistered : TrackerUnsetBit(n)
    \/ TrackerNextPacketID

SpecWaiting == InitTracker /\ [][NextWaiting]_vars

\* registerWaiting returns in this step.
Registers == Len(registered') = Len(registered) + 1

\* C32: registerWaiting(id, msg) sets bit[id] and appends the entry at the tail of
\* the waiting list, and eachWaitingPacket visits every registered, not yet
\* released entry exactly once, in the order of registration.
C32_RegisterAndVisit ==
    [][/\ Registers =>
             /\ getBit(inFlight', registered'[Len(registered')][1])
             /\ WaitingEntries(inFlight') =
                   Append(WaitingEntries(inFlight), registered'[Len(registered')])
       /\ WaitingEntries(inFlight') = registered']_vars

\* A handler has died in releaseWaiting on an identifier whose bit is clear.
C33_HandlerPanicked ==
    /\ panicked = "releaseWaiting"
    /\ \E d \in 1..Len(disp) : disp[d].cur # 0 /\ ~getBit(inFlight, disp[d].cur)

\* A step in which releaseWaiting panics on a clear bit: in a handler of inbound
\* packets, or called on a tracker alone.
ReleasePanics(id) ==
    /\ panicked = "no" /\ panicked' = "releaseWaiting"
    /\ ~getBit(inFlight, id)

\* C33: releaseWaiting(id) with bit[id] clear panics and changes neither the
\* waiting list nor the bits; so a PUBACK or PUBCOMP for an identifier that is
\* not in flight, taken by a handler that does not ignore it, ends the handler
\* (and the process) with that panic.
C33_ReleaseUnregisteredPanics ==
    [][/\ \A id \in 1..MaxID : ReleasePanics(id) => inFlight' = inFlight
       /\ \A d \in 1..Len(disp) :
             \A type \in {PublishAckType, PublishCompleteType} :
                 /\ TakesAny(d, type) /\ ~Ignored(type)
                 /\ ~getBit(inFlight, BodyPacketID(Head(disp[d].messages).body))
                 => /\ panicked' = "releaseWaiting"
                    /\ inFlight' = inFlight]_vars

\* releaseWaiting(id) returns in this step: called on a tracker alone, or by the
\* handler d of a PUBACK or PUBCOMP.
ReleaseReturns(id) ==
    \/ /\ disp = <<>> /\ panicked' = "no" /\ inFlight' # inFlight
       /\ inFlight' = releaseWaiting(inFlight, id).f
       /\ inFlight'.bits = inFlight.bits /\ Len(inFlight'.nodes) = Len(inFlight.nodes)
       /\ inFlight'.nextValue = inFlight.nextValue
    \/ \E d \in 1..Len(disp) : Releases(d) /\ disp'[d].cur = id

\* C34: releaseWaiting(id) leaves the entries of all other identifiers in the
\* waiting list, in their order.
C34_ReleaseKeepsOthers ==
    [][\A id \in 1..MaxID :
          ReleaseReturns(id) =>
              SelectSeq(WaitingEntries(inFlight'), LAMBDA e : e[1] # id)
                 = SelectSeq(WaitingEntries(inFlight), LAMBDA e : e[1] # id)]_vars

\* C35: on a connection the DISCONNECT packet is the last one: no message is
\* sent on toBroker behind it and no packet is written by the writer after it.
C35_DisconnectLast ==
    /\ \A i \in 1..Len(toBroker.log) :
          toBroker.log[i] = NewDisconnectMessage => i = Len(toBroker.log)
    /\ \A e \in 1..Len(disp) :
          \A i \in 1..Len(Written("writer", e)) :
              ShiftRight(Written("writer", e)[i][1], 4) = DisconnectType
                 => i = Len(Written("writer", e))

\* Connect returns an error in this step, after its state check had passed.
ConnectFails ==
    /\ ctl.pc = "connectWait" /\ ctl'.pc = "idle"
    /\ ctlRet'.op = "Connect" /\ ctlRet'.err # "nil"

\* Connect returns the error of its state check in this step.
ConnectRefusedByState ==
    /\ ctl.pc = "idle" /\ ctl'.pc = "idle" /\ ctlRet' # ctlRet
    /\ ctlRet'.op = "Connect" /\ ctlRet'.err # "nil"

\* C36: a Connect that returns an error (state check, timeout, refused or
\* malformed CONNACK, transport error) leaves the tracker (bits, waiting list,
\* cursor) and the flags XIgnorePubAck and XIgnorePubComp as they
\* were when it was called.
C36_FailedConnectKeepsTracker ==
    [][/\ ConnectFails =>
             /\ TrackerView(inFlight') = TrackerView(ctl.before[1])
             /\ <<XIgnorePubAck', XIgnorePubComp'>> = <<ctl.before[2], ctl.before[3]>>
       /\ ConnectRefusedByState =>
             UNCHANGED <<inFlight, XIgnorePubAck, XIgnorePubComp>>]_vars

\* The goroutines that are at a write to the Session's transport: a
\* connect/connack handler about to write CONNECT, Connect retransmitting the
\* waiting packets, the writer with a message to write.
TransportWriters ==
    {<<"worker", k>> : k \in {j \in 1..Len(workers) : workers[j].pc = "write"}}
      \cup (IF ctl.pc = "resend" /\ ctl.cursor # 0 THEN {<<"resend", 0>>} ELSE {})
      \cup (IF writerAlive /\ toBroker.q # <<>> THEN {<<"writer", 0>>} ELSE {})

\* C37: at no time are two goroutines of a Session at a write to the transport:
\* the connect/connack handler, the retransmission of Connect and the writer
\* exclude each other.
C37_OneWriterAtATime == Cardinality(TransportWriters) <= 1

\* The connect/connack handlers of Connect calls that have returned.
ReturnedWorkers ==
    {k \in 1..Len(workers) : ~(ctl.pc = "connectWait" /\ k = Len(workers))}

\* C38: once a Connect call has returned, its connect/connack handler has ended
\* and neither reads from nor writes to the transport; a CONNACK sent in reply
\* to a later Connect is read by the handler of that call.
C38_HandshakeWorkerEnds ==
    [][\A k \in ReturnedWorkers :
          /\ workers[k].pc \notin {"write", "read"}
          /\ k <= Len(workers') => workers'[k] = workers[k]]_vars

\* No Publish and no handler of an acknowledgement is in progress.
TrackerAtRest ==
    /\ pub.pc = "idle"
    /\ \A d \in 1..Len(disp) : disp[d].pc = "select"

\* C39: each packet identifier occurs at most once in the waiting list, and
\* while no Publish and no acknowledgement handler is in progress the
\* identifiers whose bit is set are those of the waiting list.
C39_BitsAreWaiting ==
    ~inFlight.nil =>
        /\ DistinctWaiting(inFlight)
        /\ TrackerAtRest =>
              inFlight.bits = {WaitingIDs(inFlight)[i] : i \in 1..Len(WaitingIDs(inFlight))}

\* The elements of a sequence of nodes.
NodeSet(ns) == {ns[i] : i \in 1..Len(ns)}

\* front, back, next and prev agree: the nodes reached from front by next are
\* distinct, each one's prev is the node before it, the first has no prev, the
\* last has no next and is back; an empty list has neither front nor back.
LinksConsistent(f) ==
    LET ns == WaitingNodes(f) IN
    /\ \A i, j \in 1..Len(ns) : ns[i] = ns[j] => i = j
    /\ IF ns = <<>> THEN f.front = 0 /\ f.back = 0
       ELSE /\ f.front = ns[1] /\ f.back = ns[Len(ns)]
            /\ f.nodes[ns[1]].prev = 0 /\ f.nodes[ns[Len(ns)]].next = 0
            /\ \A i \in 1..(Len(ns) - 1) :
                  f.nodes[ns[i]].next = ns[i + 1] /\ f.nodes[ns[i + 1]].prev = ns[i]

\* releaseWaiting(id) calls Remove(it) in this step, it an element of the list
\* (reached from front) and the list one of consistent links.
RemovesLinked(id, it) ==
    /\ disp = <<>> /\ panicked = "no" /\ panicked' = "no"
    /\ Len(registered') < Len(registered)
    /\ registered' = WithoutFirst(registered, id)
    /\ it = inFlight.waitingIdx[id]
    /\ it \in NodeSet(WaitingNodes(inFlight))
    /\ LinksConsistent(inFlight)

\* C40: Remove(x) of an element x of a list built by PushBack leaves the other
\* elements in their order, with front, back, next and prev consistent (after
\* the removal of the last element front and back are nil), and x has neither
\* next nor prev.
C40_RemoveLinked ==
    [][\A id \in 1..MaxID : \A it \in 1..Len(inFlight.nodes) :
          RemovesLinked(id, it) =>
              /\ WaitingNodes(inFlight') =
                    SelectSeq(WaitingNodes(inFlight), LAMBDA n : n # it)
              /\ LinksConsistent(inFlight')
              /\ Len(WaitingNodes(inFlight)) = 1 =>
                    inFlight'.front = 0 /\ inFlight'.back = 0
              /\ inFlight'.nodes[it].next = 0 /\ inFlight'.nodes[it].prev = 0]_vars

\* Of three elements the middle one and then the last were removed: the first
\* is alone at front and back, and no element has a next or a prev.
C40_MiddleThenLast ==
    /\ disp = <<>> /\ Len(inFlight.nodes) = 3
    /\ [i \in 1..3 |-> inFlight.nodes[i].packetID] = <<1, 2, 3>>
    /\ registered = <<<<1, TestData(1)>>>>
    /\ inFlight.front = 1 /\ inFlight.back = 1
    /\ \A i \in 1..3 : inFlight.nodes[i].next = 0 /\ inFlight.nodes[i].prev = 0

====
